---------------------------- MODULE Spec2Model ----------------------------
(***************************************************************************)
(* Double-entry ledger construction of kennedycj/etl: the transaction      *)
(* classifier, the posting synthesizer, the ledger builder and the         *)
(* cross-account matcher.                                                  *)
(*                                                                         *)
(* Conventions                                                             *)
(*   - text is a TLA+ string; Python's str operations are modelled by the  *)
(*     operators of the first section (character by character);            *)
(*   - an Optional value is None (the empty tuple) or Some(v) (a 1-tuple); *)
(*   - an amount is an integer number of thousandths of a dollar, so       *)
(*     Decimal('0.01') is 10 and -150.00 is -150000;                       *)
(*   - a date is an integer day number.                                    *)
(***************************************************************************)
EXTENDS Integers, Sequences, FiniteSets, TLC

\* the last call of classify_transaction_type: arguments and result
VARIABLE cls
\* the last call of create_ledger_postings: arguments and result
VARIABLE syn
\* the last construction of a LedgerEntry: arguments and outcome
VARIABLE ent
\* the rows of the processed files (LedgerBuilder.load_processed_transactions)
VARIABLE transactions_df
\* LedgerBuilder.entries
VARIABLE entries
\* build_ledger_from_processed_files: the counters converted and failed
VARIABLE converted
VARIABLE failed
\* the file ledger.csv written by export_to_csv
VARIABLE ledger_csv
\* AccountMatcher.ledger_df
VARIABLE ledger_df
\* AccountMatcher.matches
VARIABLE matches
\* the data frame returned by create_reconciled_ledger
VARIABLE reconciled_df
\* the position of the script build_ledger.py
VARIABLE pc
\* the rows of the table transactions (TransactionModel) that the session reads
VARIABLE store
\* deduplicate_transactions: the argument transactions_data
VARIABLE transactions_data
\* deduplicate_transactions: the three result lists
VARIABLE new_transactions
VARIABLE exact_duplicates
VARIABLE fuzzy_duplicates
\* deduplicate_transactions: the returned deduplication_report, None before the return
VARIABLE deduplication_report
\* deduplicate_transactions: the position in the loop over transactions_data
VARIABLE dedup_pc
\* Block.journal of the block b = Block(): the postings (account type, amount)
VARIABLE journal
\* Block.closed: FALSE stands for datetime.max, TRUE for a time of close()
VARIABLE closed
\* the last call on the block: its name, its arguments and the exception it raised
VARIABLE last_call

builder == <<transactions_df, entries, converted, failed>>

matcher == <<ledger_csv, ledger_df, matches, reconciled_df>>

dedup == <<store, transactions_data, new_transactions, exact_duplicates,
           fuzzy_duplicates, deduplication_report, dedup_pc>>

block == <<journal, closed, last_call>>

vars == <<cls, syn, ent, transactions_df, entries, converted, failed,
          ledger_csv, ledger_df, matches, reconciled_df, pc,
          store, transactions_data, new_transactions, exact_duplicates,
          fuzzy_duplicates, deduplication_report, dedup_pc,
          journal, closed, last_call>>

---------------------------------------------------------------------------
(* Python values and str operations                                        *)

None == <<>>

Some(v) == <<v>>

\* Python truthiness of an Optional[str]: None and '' are false
Truthy(opt) == opt /= None /\ opt[1] /= ""

\* (opt or default)
OrElse(opt, default) == IF Truthy(opt) THEN opt[1] ELSE default

Abs(n) == IF n < 0 THEN -n ELSE n

UpperCase == "ABCDEFGHIJKLMNOPQRSTUVWXYZ"

LowerCase == "abcdefghijklmnopqrstuvwxyz"

\* the index of the first occurrence of sub in s, 0 when there is none (str.find + 1)
Find(s, sub) ==
    LET hits == {i \in 1..(Len(s) - Len(sub) + 1) : SubSeq(s, i, i + Len(sub) - 1) = sub}
    IN  IF hits = {} THEN 0 ELSE CHOOSE i \in hits : \A j \in hits : i <= j

\* the lower-case letter of every upper-case letter
ToLower ==
    [c \in {SubSeq(UpperCase, i, i) : i \in 1..Len(UpperCase)} |->
        SubSeq(LowerCase, Find(UpperCase, c), Find(UpperCase, c))]

LowerChar(c) == IF c \in DOMAIN ToLower THEN ToLower[c] ELSE c

RECURSIVE Lower(_)
\* str.lower()
Lower(s) == IF s = "" THEN "" ELSE LowerChar(SubSeq(s, 1, 1)) \o Lower(Tail(s))

\* sub in s
Contains(s, sub) ==
    \E i \in 1..(Len(s) - Len(sub) + 1) : SubSeq(s, i, i + Len(sub) - 1) = sub

\* s.startswith(prefix)
StartsWith(s, prefix) == Len(prefix) <= Len(s) /\ SubSeq(s, 1, Len(prefix)) = prefix

\* any(keyword in a or keyword in b for keyword in keywords)
AnyIn(keywords, a, b) == \E k \in keywords : Contains(a, k) \/ Contains(b, k)

---------------------------------------------------------------------------
(* transaction_classifier.classify_transaction_type                        *)

Kinds == {"expense", "income", "transfer", "credit_card_payment",
          "investment_contribution", "liability_payment", "unknown"}

investment_keywords == {"529", "ira", "401k", "401(k)", "contribution", "contrib",
                        "mn dir", "mn dir ach", "direct ach", "investment contribution"}

liability_keywords == {"student loan", "student loans", "mortgage", "heloc",
                       "loan payment", "loan pay", "us bank", "ford credit",
                       "auto loan", "car loan", "vehicle loan"}

income_keywords == {"salary", "payroll", "deposit", "interest earned", "dividend",
                    "refund", "reimbursement"}

transfer_keywords == {"transfer", "online transfer", "scheduled transfer",
                      "ach transfer", "wire transfer"}

\* lines 111-113: 'bill payment' in description.lower() or in (original_description or '').lower()
HasBillPayment(description, original_description) ==
    \/ Contains(Lower(description), "bill payment")
    \/ Contains(Lower(OrElse(original_description, "")), "bill payment")

\* mutant: the credit-card rule also takes a zero amount
ClassifyByAccount_ZeroIsSpending(description_lower, orig_desc_lower, amount, account_type, category) ==
    IF account_type \in {"credit_card"} /\ amount <= 0 THEN "expense"
    ELSE IF account_type \in {"checking", "savings"} /\ amount > 0 THEN "income"
    ELSE IF account_type \in {"checking", "savings"} /\ amount < 0 THEN
        IF Contains(description_lower, "credit card")
              \/ Contains(orig_desc_lower, "credit card")
              \/ (Truthy(category) /\ Contains(Lower(category[1]), "credit card"))
        THEN "credit_card_payment"
        ELSE "expense"
    ELSE "unknown"

\* lines 179-209: the fallback by account type and sign of the amount
ClassifyByAccount(description_lower, orig_desc_lower, amount, account_type, category) ==
    IF account_type \in {"credit_card"} /\ amount < 0 THEN "expense"
    ELSE IF account_type \in {"checking", "savings"} /\ amount > 0 THEN
        IF AnyIn(income_keywords, description_lower, description_lower) THEN "income"
        ELSE IF AnyIn(transfer_keywords, description_lower, description_lower) THEN "transfer"
        ELSE "income"
    ELSE IF account_type \in {"checking", "savings"} /\ amount < 0 THEN
        IF AnyIn(transfer_keywords, description_lower, orig_desc_lower) THEN "transfer"
        ELSE IF Contains(description_lower, "bill payment")
                \/ Contains(orig_desc_lower, "bill payment") THEN "expense"
        ELSE IF Contains(description_lower, "credit card")
                \/ Contains(orig_desc_lower, "credit card")
                \/ (Truthy(category) /\ Contains(Lower(category[1]), "credit card"))
             THEN "credit_card_payment"
        ELSE "expense"
    ELSE "unknown"

\* mutant: the liability scan runs before the investment scan
ClassifyByKeyword_LiabilityFirst(description, amount, account_type, category, original_description) ==
    LET description_lower == Lower(description)
        orig_desc_lower   == Lower(OrElse(original_description, ""))
    IN  IF AnyIn(liability_keywords, description_lower, orig_desc_lower)
             THEN "liability_payment"
        ELSE IF AnyIn(investment_keywords, description_lower, orig_desc_lower)
             THEN "investment_contribution"
        ELSE IF AnyIn(transfer_keywords, description_lower, orig_desc_lower)
             THEN "transfer"
        ELSE ClassifyByAccount(description_lower, orig_desc_lower, amount,
                               account_type, category)

\* lines 137-177: the keyword scans over description and original description
ClassifyByKeyword(description, amount, account_type, category, original_description) ==
    LET description_lower == Lower(description)
        orig_desc_lower   == Lower(OrElse(original_description, ""))
    IN  IF Contains(description_lower, "bill payment")
           \/ Contains(orig_desc_lower, "bill payment") THEN "expense"
        ELSE IF AnyIn(investment_keywords, description_lower, orig_desc_lower)
             THEN "investment_contribution"
        ELSE IF AnyIn(liability_keywords, description_lower, orig_desc_lower)
             THEN "liability_payment"
        ELSE IF AnyIn(transfer_keywords, description_lower, orig_desc_lower)
             THEN "transfer"
        ELSE ClassifyByAccount(description_lower, orig_desc_lower, amount,
                               account_type, category)

\* lines 116-135: the category table; None when the category decides nothing
ClassifyByCategory(description, category) ==
    IF ~Truthy(category) THEN None
    ELSE LET cat_lower == Lower(category[1])
         IN  IF cat_lower \in {"transfers", "transfer"} THEN Some("transfer")
             ELSE IF cat_lower \in {"credit card payments", "credit card payment",
                                    "credit cards"} THEN Some("credit_card_payment")
             ELSE IF Contains(Lower(description), "bill payment") THEN Some("expense")
             ELSE IF cat_lower \in {"mortgages", "mortgage"} THEN Some("liability_payment")
             ELSE IF cat_lower \in {"loans", "loan", "student loan", "student loans"}
                  THEN Some("liability_payment")
             ELSE IF cat_lower \in {"savings", "529", "529k", "investment", "investments"}
                  THEN Some("investment_contribution")
             ELSE None

\* mutant: the category table is consulted before the bill-payment marker
classify_CategoryFirst(description, amount, account_type, category, original_description) ==
    IF ClassifyByCategory(description, category) /= None
         THEN ClassifyByCategory(description, category)[1]
    ELSE ClassifyByKeyword(description, amount, account_type, category,
                           original_description)

\* lines 94-209
classify_transaction_type(description, amount, account_type, category, original_description) ==
    IF HasBillPayment(description, original_description) THEN "expense"
    ELSE IF ClassifyByCategory(description, category) /= None
         THEN ClassifyByCategory(description, category)[1]
    ELSE ClassifyByKeyword(description, amount, account_type, category,
                           original_description)

---------------------------------------------------------------------------
(* transaction_classifier.create_ledger_postings                           *)

RECURSIVE Remove(_, _)
\* s.replace(c, '') for a single character c
Remove(s, c) ==
    IF s = "" THEN ""
    ELSE (IF SubSeq(s, 1, 1) = c THEN "" ELSE SubSeq(s, 1, 1)) \o Remove(Tail(s), c)

\* lines 392-443; account_type is a plain string
map_account_to_ledger_account(account_name, account_type, institution) ==
    LET institution_clean == Remove(Remove(institution, " "), "_")
    IN  IF account_type \in {"checking", "savings", "cd"} THEN
            "Assets:" \o institution_clean \o ":" \o
                (CASE account_type = "checking" -> "Checking"
                   [] account_type = "savings"  -> "Savings"
                   [] account_type = "cd"       -> "CDs")
        ELSE IF account_type = "credit_card" THEN
            "Liabilities:CreditCards:" \o institution_clean
        ELSE IF account_type \in {"mortgage", "heloc"} THEN
            "Liabilities:" \o (IF account_type = "mortgage" THEN "Mortgage" ELSE "HELOC")
                \o ":" \o institution_clean
        ELSE IF account_type \in {"brokerage", "ira_traditional", "ira_roth",
                                  "ira_rollover", "401k", "529", "able"} THEN
            "Assets:" \o
                (CASE account_type = "brokerage"       -> "Investments:Brokerage"
                   [] account_type = "ira_traditional" -> "Investments:IRA:Traditional"
                   [] account_type = "ira_roth"        -> "Investments:IRA:Roth"
                   [] account_type = "ira_rollover"    -> "Investments:IRA:Rollover"
                   [] account_type = "401k"            -> "Investments:401k"
                   [] account_type = "529"             -> "Investments:529"
                   [] account_type = "able"            -> "Investments:ABLE")
                \o ":" \o institution_clean
        ELSE "Assets:" \o institution_clean \o ":" \o account_type

\* lines 238-256: the account type inferred from the account name
InferTypeFromName(acc_name) ==
    LET acc_name_lower == Lower(acc_name)
    IN  IF Contains(acc_name_lower, "savings") /\ ~Contains(acc_name_lower, "checking")
            THEN "savings"
        ELSE IF Contains(acc_name_lower, "checking")
                \/ (Contains(acc_name_lower, "bank") /\ ~Contains(acc_name_lower, "savings"))
            THEN "checking"
        ELSE IF Contains(acc_name_lower, "credit") \/ Contains(acc_name_lower, "card")
            THEN "credit_card"
        ELSE IF Contains(acc_name_lower, "cd") THEN "cd"
        ELSE IF Contains(acc_name_lower, "regular savings") THEN "savings"
        ELSE IF Contains(acc_name_lower, "adv plus")
                \/ Contains(acc_name_lower, "adv plus banking") THEN "checking"
        ELSE "checking"

\* lines 237-257: the closure get_ledger_account(acc_name, acc_type=None); institution
\* is the argument of the enclosing call
get_ledger_account(acc_name, acc_type, institution) ==
    map_account_to_ledger_account(
        acc_name,
        IF Truthy(acc_type) THEN acc_type[1] ELSE InferTypeFromName(acc_name),
        institution)

\* lines 259-266
TransferPostings(account_name, amount, source_account_name, target_account_name, institution) ==
    LET target_account == OrElse(target_account_name, account_name)
        source_ledger  == get_ledger_account(source_account_name[1], None, institution)
        target_ledger  == get_ledger_account(target_account, None, institution)
    IN  << <<source_ledger, -Abs(amount)>>, <<target_ledger, Abs(amount)>> >>

\* lines 268-295
InvestmentPostings(account_name, amount, description, category, institution) ==
    LET desc_lower == Lower(description)
        cat        == Lower(OrElse(category, ""))
        investment_account ==
            IF Contains(desc_lower, "529") \/ Contains(desc_lower, "mn dir")
               \/ (Truthy(category) /\ Contains(cat, "529"))
                THEN "Assets:Investments:529"
            ELSE IF Contains(desc_lower, "ira") \/ (Truthy(category) /\ Contains(cat, "ira"))
                THEN "Assets:Investments:IRA:Traditional:" \o institution
            ELSE IF Contains(desc_lower, "401") \/ Contains(desc_lower, "401k")
                    \/ (Truthy(category) /\ Contains(cat, "401"))
                THEN "Assets:Investments:401k:" \o institution
            ELSE IF (Truthy(category) /\ Contains(cat, "savings"))
                    \/ Contains(desc_lower, "contrib")
                THEN "Assets:Investments:529"
            ELSE "Assets:Investments:Other:" \o institution
        checking_ledger == get_ledger_account(account_name, Some("checking"), institution)
    IN  << <<checking_ledger, amount>>, <<investment_account, -amount>> >>

\* lines 297-343
LiabilityPostings(account_name, amount, description, category, institution) ==
    LET desc_lower == Lower(description)
        cat_lower  == Lower(OrElse(category, ""))
        liability_account ==
            IF Contains(cat_lower, "mortgage") \/ Contains(cat_lower, "mortgages")
                THEN "Liabilities:Mortgage"
            ELSE IF Contains(cat_lower, "student loan") THEN "Liabilities:StudentLoans"
            ELSE IF Contains(cat_lower, "auto loan") \/ Contains(cat_lower, "car loan")
                    \/ Contains(cat_lower, "vehicle loan") THEN "Liabilities:AutoLoan"
            ELSE IF Contains(cat_lower, "heloc") THEN "Liabilities:HELOC:" \o institution
            ELSE IF Contains(desc_lower, "ford credit") THEN "Liabilities:AutoLoan"
            ELSE IF Contains(desc_lower, "us bank") THEN "Liabilities:Mortgage"
            ELSE IF Contains(desc_lower, "student loan") THEN "Liabilities:StudentLoans"
            ELSE IF Contains(desc_lower, "mortgage") THEN "Liabilities:Mortgage"
            ELSE IF Contains(desc_lower, "auto loan") \/ Contains(desc_lower, "car loan")
                    \/ Contains(desc_lower, "vehicle loan") THEN "Liabilities:AutoLoan"
            ELSE IF Contains(desc_lower, "heloc") THEN "Liabilities:HELOC:" \o institution
            ELSE IF Contains(cat_lower, "loan") THEN "Liabilities:Loans"
            ELSE IF Truthy(category) /\ (Contains(Lower(category[1]), "mortgage")
                                          \/ Contains(category[1], "Mortgage"))
                THEN "Liabilities:Mortgage"
            ELSE "Liabilities:StudentLoans"
        checking_ledger == get_ledger_account(account_name, Some("checking"), institution)
    IN  << <<checking_ledger, amount>>, <<liability_account, -amount>> >>

\* lines 345-351
CreditCardPaymentPostings(account_name, amount, source_account_name, institution) ==
    LET credit_card_ledger == get_ledger_account(account_name, Some("credit_card"), institution)
        checking_ledger    == get_ledger_account(OrElse(source_account_name, account_name),
                                                 Some("checking"), institution)
    IN  << <<checking_ledger, amount>>, <<credit_card_ledger, -amount>> >>

\* lines 353-359
ExpensePostings(account_name, amount, category, institution) ==
    LET expense_account == "Expenses:" \o OrElse(category, "Uncategorized")
        asset_ledger    == get_ledger_account(account_name, None, institution)
    IN  << <<asset_ledger, amount>>, <<expense_account, -amount>> >>

\* lines 361-367
IncomePostings(account_name, amount, category, institution) ==
    LET income_account == "Income:" \o OrElse(category, "Uncategorized")
        asset_ledger   == get_ledger_account(account_name, None, institution)
    IN  << <<income_account, -amount>>, <<asset_ledger, amount>> >>

\* mutant: the unknown bucket ignores the sign of the amount
UnknownPostings_AlwaysExpense(account_name, amount, category, institution) ==
    LET account_ledger == get_ledger_account(account_name, None, institution)
    IN  << <<account_ledger, amount>>,
           <<"Expenses:" \o OrElse(category, "Unknown"), -amount>> >>

\* lines 369-387
UnknownPostings(account_name, amount, category, institution) ==
    LET account_ledger == get_ledger_account(account_name, None, institution)
    IN  IF amount < 0
        THEN << <<account_ledger, amount>>,
                <<"Expenses:" \o OrElse(category, "Unknown"), -amount>> >>
        ELSE << <<"Income:" \o OrElse(category, "Unknown"), -amount>>,
                <<account_ledger, amount>> >>

\* mutant: the target of a transfer receives the signed amount
create_ledger_postings_SignedTransfer(account_name, amount, transaction_type, description, category, source_account_name, target_account_name, institution) ==
    IF transaction_type = "transfer" /\ Truthy(source_account_name) THEN
        << <<get_ledger_account(source_account_name[1], None, institution), -Abs(amount)>>,
           <<get_ledger_account(OrElse(target_account_name, account_name), None, institution),
             amount>> >>
    ELSE IF transaction_type = "investment_contribution" THEN
        InvestmentPostings(account_name, amount, description, category, institution)
    ELSE IF transaction_type = "liability_payment" THEN
        LiabilityPostings(account_name, amount, description, category, institution)
    ELSE IF transaction_type = "credit_card_payment" THEN
        CreditCardPaymentPostings(account_name, amount, source_account_name, institution)
    ELSE IF transaction_type = "expense" THEN
        ExpensePostings(account_name, amount, category, institution)
    ELSE IF transaction_type = "income" THEN
        IncomePostings(account_name, amount, category, institution)
    ELSE UnknownPostings(account_name, amount, category, institution)

\* lines 212-389; the legacy parameter other_account is never read and is left out
create_ledger_postings(account_name, amount, transaction_type, description, category, source_account_name, target_account_name, institution) ==
    IF transaction_type = "transfer" /\ Truthy(source_account_name) THEN
        TransferPostings(account_name, amount, source_account_name, target_account_name,
                         institution)
    ELSE IF transaction_type = "investment_contribution" THEN
        InvestmentPostings(account_name, amount, description, category, institution)
    ELSE IF transaction_type = "liability_payment" THEN
        LiabilityPostings(account_name, amount, description, category, institution)
    ELSE IF transaction_type = "credit_card_payment" THEN
        CreditCardPaymentPostings(account_name, amount, source_account_name, institution)
    ELSE IF transaction_type = "expense" THEN
        ExpensePostings(account_name, amount, category, institution)
    ELSE IF transaction_type = "income" THEN
        IncomePostings(account_name, amount, category, institution)
    ELSE UnknownPostings(account_name, amount, category, institution)

\* sum(amount for _, amount in postings)
RECURSIVE SumAmounts(_)
SumAmounts(postings) ==
    IF postings = <<>> THEN 0 ELSE Head(postings)[2] + SumAmounts(Tail(postings))

---------------------------------------------------------------------------
(* transaction_classifier: transfer counterparties                         *)

Whitespace == {" ", "\t", "\n"}

RECURSIVE LStrip(_)
LStrip(s) == IF s /= "" /\ SubSeq(s, 1, 1) \in Whitespace THEN LStrip(Tail(s)) ELSE s

RECURSIVE RStrip(_)
RStrip(s) ==
    IF s /= "" /\ SubSeq(s, Len(s), Len(s)) \in Whitespace
    THEN RStrip(SubSeq(s, 1, Len(s) - 1)) ELSE s

\* str.strip()
Strip(s) == RStrip(LStrip(s))

\* s.split(sep, 1)[1] when sep occurs in s
After(s, sep) == SubSeq(s, Find(s, sep) + Len(sep), Len(s))

\* s.split(sep)[0]
Before(s, sep) == IF Contains(s, sep) THEN SubSeq(s, 1, Find(s, sep) - 1) ELSE s

\* len(s.split())
WordCount(s) ==
    Cardinality({i \in 1..Len(s) :
                    /\ SubSeq(s, i, i) \notin Whitespace
                    /\ (i = 1 \/ SubSeq(s, i - 1, i - 1) \in Whitespace)})

\* lines 13-52: None or Some(<<source, target>>)
extract_transfer_accounts(original_description, account_name, category) ==
    IF Truthy(category) /\ Lower(category[1]) \in {"transfers", "transfer"} THEN
        LET desc_lower == Lower(original_description)
            cleaned(info) == Strip(Before(Strip(Before(Strip(info), "confirmation")),
                                          "conf#"))
        IN  IF Contains(desc_lower, "from")
                THEN Some(<<cleaned(After(desc_lower, "from")), account_name>>)
            ELSE IF Contains(desc_lower, "to")
                THEN Some(<<account_name, cleaned(After(desc_lower, "to"))>>)
            ELSE None
    ELSE None

\* lines 68-76: account_type_map, in insertion order
account_type_map == <<
    <<"chk", "Checking">>, <<"checking", "Checking">>, <<"sav", "Savings">>,
    <<"savings", "Savings">>, <<"cd", "CD">>, <<"credit", "Credit Card">>,
    <<"cc", "Credit Card">> >>

\* lines 55-91: None or Some(account name)
map_account_identifier_to_name(account_identifier, institution) ==
    LET identifier_lower == Strip(Lower(account_identifier))
        hits == {i \in 1..Len(account_type_map) :
                    Contains(identifier_lower, account_type_map[i][1])}
    IN  IF hits = {} THEN None
        ELSE LET first == CHOOSE i \in hits : \A j \in hits : i <= j
                 account_type == account_type_map[first][2]
             IN  IF account_type = "Savings"
                 THEN Some(institution \o " - Bank - Regular Savings")
                 ELSE Some(institution \o " - Bank - " \o account_type)

---------------------------------------------------------------------------
(* ledger_builder: LedgerEntry and LedgerBuilder                           *)

\* line 43: Decimal('0.01')
Tolerance == 10

\* mutant: an imbalance of exactly the tolerance is rejected
LedgerEntry_StrictTolerance(date, description, postings, metadata) ==
    IF Abs(SumAmounts(postings)) >= Tolerance THEN None
    ELSE Some([date |-> date, description |-> description, postings |-> postings,
               metadata |-> metadata])

\* lines 26-44: LedgerEntry.__init__; None stands for the raised ValueError (no object
\* is constructed), Some(entry) for the constructed entry
LedgerEntry(date, description, postings, metadata) ==
    IF Abs(SumAmounts(postings)) > Tolerance THEN None
    ELSE Some([date |-> date, description |-> description, postings |-> postings,
               metadata |-> metadata])

\* lines 264-300
infer_account_type(account_name, source_file) ==
    LET account_lower == Lower(account_name)
        file_lower    == Lower(source_file)
    IN  IF Contains(account_lower, "credit card")
           \/ Contains(account_lower, "american express") THEN "credit_card"
        ELSE IF Contains(account_lower, "checking") \/ Contains(account_lower, "bank")
            THEN "checking"
        ELSE IF Contains(account_lower, "savings") THEN "savings"
        ELSE IF Contains(account_lower, "cd") THEN "cd"
        ELSE IF Contains(account_lower, "mortgage") THEN "mortgage"
        ELSE IF Contains(account_lower, "heloc") THEN "heloc"
        ELSE IF Contains(file_lower, "american_express") THEN "credit_card"
        ELSE IF Contains(file_lower, "checking") \/ Contains(file_lower, "bank")
            THEN "checking"
        ELSE IF Contains(file_lower, "savings") THEN "savings"
        ELSE "checking"

\* lines 302-330
extract_institution(account_name, source_file) ==
    LET file_lower == Lower(source_file)
    IN  IF Contains(account_name, "Bank of America") THEN "BankOfAmerica"
        ELSE IF Contains(account_name, "American Express") THEN "AmericanExpress"
        ELSE IF Contains(account_name, "Chase") THEN "Chase"
        ELSE IF Contains(file_lower, "bank_of_america") \/ Contains(file_lower, "boa")
            THEN "BankOfAmerica"
        ELSE IF Contains(file_lower, "american_express") THEN "AmericanExpress"
        ELSE IF Contains(file_lower, "chase") THEN "Chase"
        ELSE "Unknown"

\* lines 332-356
map_transfer_source_to_account(source_description, institution) ==
    LET mapped     == map_account_identifier_to_name(source_description, institution)
        desc_lower == Lower(source_description)
    IN  IF Truthy(mapped) THEN mapped[1]
        ELSE IF Contains(desc_lower, "chk") \/ Contains(desc_lower, "checking")
            THEN institution \o " - Bank - Checking"
        ELSE IF Contains(desc_lower, "sav") \/ Contains(desc_lower, "savings")
            THEN institution \o " - Bank - Savings"
        ELSE institution \o " - Bank - Checking"

\* lines 218, 226: len(x.split()) <= 3 and any(k in x.lower() for k in ['chk','sav','cd'])
LooksLikeIdentifier(x) ==
    WordCount(x) <= 3 /\ \E k \in {"chk", "sav", "cd"} : Contains(Lower(x), k)

\* lines 209-229: <<source_account_name, target_account_name>> of a transfer
TransferAccounts(tx_type, description, original_description, account_name, category, institution) ==
    LET transfer_info == extract_transfer_accounts(OrElse(original_description, description),
                                                   account_name, category)
    IN  IF tx_type /= "transfer" \/ transfer_info = None THEN <<None, None>>
        ELSE LET source_desc == transfer_info[1][1]
                 target_desc == transfer_info[1][2]
             IN  IF LooksLikeIdentifier(source_desc)
                 THEN <<Some(map_transfer_source_to_account(source_desc, institution)),
                        Some(target_desc)>>
                 ELSE <<Some(source_desc),
                        IF LooksLikeIdentifier(target_desc)
                        THEN Some(OrElse(map_account_identifier_to_name(target_desc,
                                                                        institution),
                                         target_desc))
                        ELSE Some(target_desc)>>

\* lines 174-183: the first non-empty of 'Original Description', 'Description'
RowDescription(row) ==
    IF row.OriginalDescription /= None /\ Strip(row.OriginalDescription[1]) /= ""
        THEN Strip(row.OriginalDescription[1])
    ELSE IF row.Description /= None /\ Strip(row.Description[1]) /= ""
        THEN Strip(row.Description[1])
    ELSE "Transaction"

\* lines 185-190 and 192-197: str(row[col]).strip() of a present column
StripOptional(opt) == IF opt = None THEN None ELSE Some(Strip(opt[1]))

\* mutant of EntryOfKind: a transfer without a resolved source account gives no entry
EntryOfKind_DropsUnresolvedTransfer(date, amount, account_name, description, category, source_file, institution, tx_type, transfer) ==
    IF tx_type = "transfer" /\ ~Truthy(transfer[1]) THEN None
    ELSE LedgerEntry(date, description,
                     create_ledger_postings(account_name, amount, tx_type, description,
                                            category, transfer[1], transfer[2],
                                            institution),
                     [source_file |-> source_file, account_name |-> account_name,
                      category |-> category, transaction_type |-> tx_type])

\* lines 231-249: the postings, the metadata and the entry of a classified row;
\* transfer is <<source_account_name, target_account_name>>
EntryOfKind(date, amount, account_name, description, category, source_file, institution, tx_type, transfer) ==
    LedgerEntry(date, description,
                create_ledger_postings(account_name, amount, tx_type, description,
                                       category, transfer[1], transfer[2], institution),
                [source_file |-> source_file, account_name |-> account_name,
                 category |-> category, transaction_type |-> tx_type])

\* lines 208-229: the transfer accounts of a classified row
EntryOfClassified(date, amount, account_name, description, category, original_description, source_file, institution, tx_type) ==
    EntryOfKind(date, amount, account_name, description, category, source_file,
                institution, tx_type,
                TransferAccounts(tx_type, description, original_description,
                                 account_name, category, institution))

\* lines 199-206: the account type, the institution and the kind of a row whose
\* columns have been read
EntryOfFields(date, amount, account_name, description, category, original_description, source_file) ==
    EntryOfClassified(date, amount, account_name, description, category,
                      original_description, source_file,
                      extract_institution(account_name, source_file),
                      classify_transaction_type(
                          description, amount,
                          infer_account_type(account_name, source_file),
                          category, original_description))

\* lines 112-252: None (conversion failed) or Some(entry).  A row is the record of
\* the columns the method reads, each None when the column is missing or NaN
convert_transaction_to_ledger_entry(row) ==
    IF row.Date = None \/ row.Amount = None \/ ~Truthy(row.AccountName) THEN None
    ELSE EntryOfFields(row.Date[1], row.Amount[1], row.AccountName[1],
                       RowDescription(row), StripOptional(row.Category),
                       StripOptional(row.OriginalDescription), row.source_file)

RECURSIVE InsertByDate_BeforeEqual(_, _)
\* mutant of InsertByDate: x placed in front of the elements of its own date
InsertByDate_BeforeEqual(sorted, x) ==
    IF sorted = <<>> THEN <<x>>
    ELSE IF Head(sorted).date < x.date
        THEN <<Head(sorted)>> \o InsertByDate_BeforeEqual(Tail(sorted), x)
    ELSE <<x>> \o sorted

RECURSIVE InsertByDate(_, _)
\* x placed behind every element whose date is not later than its own
InsertByDate(sorted, x) ==
    IF sorted = <<>> THEN <<x>>
    ELSE IF Head(sorted).date <= x.date THEN <<Head(sorted)>> \o InsertByDate(Tail(sorted), x)
    ELSE <<x>> \o sorted

RECURSIVE SortByDate(_)
\* line 400: list.sort(key=lambda e: e.date), a stable sort
SortByDate(seq) ==
    IF seq = <<>> THEN <<>>
    ELSE InsertByDate(SortByDate(SubSeq(seq, 1, Len(seq) - 1)), seq[Len(seq)])

\* mutant of Collect: a row whose conversion returned None is not counted
Collect_UncountedFailure(acc, entry) ==
    IF entry /= None THEN <<Append(acc[1], entry[1]), acc[2] + 1, acc[3]>>
    ELSE acc

\* lines 377-381: acc after one row whose conversion returned entry
Collect(acc, entry) ==
    IF entry /= None THEN <<Append(acc[1], entry[1]), acc[2] + 1, acc[3]>>
    ELSE <<acc[1], acc[2], acc[3] + 1>>

RECURSIVE BuildLoop(_, _)
\* lines 371-388: the loop over the rows; acc is <<entries, converted, failed>>
BuildLoop(rows, acc) ==
    IF rows = <<>> THEN acc
    ELSE BuildLoop(Tail(rows),
                   Collect(acc, convert_transaction_to_ledger_entry(Head(rows))))

RECURSIVE ExportRows_FirstPostingOnly(_)
\* mutant of ExportRows: one row per entry, that of its first posting
ExportRows_FirstPostingOnly(es) ==
    IF es = <<>> THEN <<>>
    ELSE << [date |-> Head(es).date, description |-> Head(es).description,
             account |-> Head(es).postings[1][1], amount |-> Head(es).postings[1][2],
             source_file |-> Head(es).metadata.source_file, transaction_id |-> "",
             original_entry |-> ""] >>
         \o ExportRows_FirstPostingOnly(Tail(es))

RECURSIVE ExportRows(_)
\* lines 491-501: one row per posting of every entry, in entry order; original_entry
\* is the column _original_entry that only corrected rows fill (account_matcher 209)
ExportRows(es) ==
    IF es = <<>> THEN <<>>
    ELSE [i \in 1..Len(Head(es).postings) |->
             [date |-> Head(es).date, description |-> Head(es).description,
              account |-> Head(es).postings[i][1], amount |-> Head(es).postings[i][2],
              source_file |-> Head(es).metadata.source_file, transaction_id |-> "",
              original_entry |-> ""]]
         \o ExportRows(Tail(es))

---------------------------------------------------------------------------
(* account_matcher.AccountMatcher                                          *)
(* A data frame is the sequence of its rows; the index of a row is its     *)
(* position.  A confidence is the float <<t, u>>: the double nearest to    *)
(* t/10, moved by u units in the last place.                               *)

\* line 30: max_date_diff_days = 3
max_date_diff_days == 3

\* lines 116-153: confidence += w for w = weight/10 in IEEE-754 double arithmetic;
\* <<x, weight, x + w>> for every sum the five signals can produce in order
FloatSums == {
    << <<0, 0>>, 2, <<2, 0>> >>,   << <<0, 0>>, 4, <<4, 0>> >>,
    << <<2, 0>>, 2, <<4, 0>> >>,   << <<2, 0>>, 3, <<5, 0>> >>,
    << <<4, 0>>, 1, <<5, 0>> >>,   << <<4, 0>>, 2, <<6, 1>> >>,
    << <<4, 0>>, 3, <<7, 0>> >>,   << <<5, 0>>, 1, <<6, 0>> >>,
    << <<5, 0>>, 2, <<7, 0>> >>,   << <<6, 0>>, 1, <<7, 0>> >>,
    << <<6, 1>>, 1, <<7, 1>> >>,   << <<6, 1>>, 2, <<8, 0>> >>,
    << <<7, 0>>, 1, <<8, -1>> >>,  << <<7, 0>>, 2, <<9, -1>> >>,
    << <<7, 1>>, 1, <<8, 0>> >>,   << <<8, -1>>, 1, <<9, -1>> >>,
    << <<8, 0>>, 1, <<9, 0>> >>,   << <<9, -1>>, 1, <<10, -1>> >>,
    << <<9, 0>>, 1, <<10, 0>> >>,  << <<10, -1>>, 1, <<11, -1>> >> }

\* confidence + weight/10; a weight of 0 stands for a signal that adds nothing
FloatAdd(x, weight) ==
    IF weight = 0 THEN x
    ELSE (CHOOSE e \in FloatSums : e[1] = x /\ e[2] = weight)[3]

\* x >= y on these floats
FloatGE(x, y) == x[1] > y[1] \/ (x[1] = y[1] /\ x[2] >= y[2])

\* line 156: the threshold 0.6
MinConfidence == <<6, 0>>

CreditCardPrefix == "Liabilities:CreditCards:"

RECURSIVE AfterLast(_, _)
\* s.split(sep)[-1]
AfterLast(s, sep) == IF Contains(s, sep) THEN AfterLast(After(s, sep), sep) ELSE s

\* Series.str.contains('A|B|...', case=False, na=False) for literal alternatives
ContainsAny(text, alternatives) == \E a \in alternatives : Contains(Lower(text), Lower(a))

\* lines 65-69: a candidate checking-side row
IsCheckingPayment(row) ==
    /\ StartsWith(row.account, "Assets:")
    /\ row.amount < 0
    /\ ContainsAny(row.description, {"AMERICAN EXPRESS", "ACH PMT", "PAYMENT"})

\* lines 65-69: the index of every candidate checking-side row
checking_payments(df) == {i \in 1..Len(df) : IsCheckingPayment(df[i])}

\* lines 73-77: a candidate credit-card-side row
IsCreditCardPayment(row) ==
    /\ StartsWith(row.account, CreditCardPrefix)
    /\ row.amount < 0
    /\ ContainsAny(row.description, {"ONLINE PAYMENT", "PAYMENT - THANK YOU"})

\* lines 73-77: the index of every candidate credit-card-side row
credit_card_payments(df) == {i \in 1..Len(df) : IsCreditCardPayment(df[i])}

\* lines 88-92
CardName(checking_desc) ==
    IF Contains(checking_desc, "american express") THEN "AmericanExpress"
    ELSE IF Contains(checking_desc, "bank of america") /\ Contains(checking_desc, "credit")
        THEN "BankOfAmerica"
    ELSE ""

\* lines 84, 99: row.get('_source_file', ''); a ledger written by export_to_csv has
\* the column source_file and no column _source_file
GetSourceFile(row) == IF "_source_file" \in DOMAIN row THEN row._source_file ELSE ""

\* lines 81-153: None when the pair is skipped (continue), else the confidence and
\* the reasons of the pair (the formatted reason texts are reduced to their labels).
\* 0.01 and 1.0 are 10 and 1000 thousandths
Score(checking_row, cc_row) ==
    LET checking_amount == Abs(checking_row.amount)
        checking_desc   == Lower(checking_row.description)
        checking_source == GetSourceFile(checking_row)
        card_name       == CardName(checking_desc)
        cc_amount       == Abs(cc_row.amount)
        cc_desc         == Lower(cc_row.description)
        cc_source       == GetSourceFile(cc_row)
        cc_account_card == IF Contains(cc_row.account, CreditCardPrefix)
                           THEN AfterLast(cc_row.account, CreditCardPrefix) ELSE ""
        amount_diff     == Abs(checking_amount - cc_amount)
        date_diff       == Abs(checking_row.date - cc_row.date)
        amount_w == IF amount_diff < 10 THEN 4 ELSE 2
        date_w   == IF date_diff = 0 THEN 3 ELSE 2
        card_w   == IF card_name /= "" /\ cc_account_card /= "" /\ card_name = cc_account_card
                        THEN 2
                    ELSE IF card_name /= "" \/ cc_account_card /= "" THEN 1
                    ELSE 0
        source_w == IF Contains(Lower(checking_source), "bank")
                       /\ Contains(Lower(cc_source), "bank") THEN 1 ELSE 0
        desc_w   == IF Contains(checking_desc, "payment") /\ Contains(cc_desc, "payment")
                        THEN 1 ELSE 0
        reasons  == <<IF amount_w = 4 THEN "Amount match" ELSE "Amount close",
                      IF date_w = 3 THEN "Same date" ELSE "Date within days">>
                    \o (IF card_w = 2 THEN <<"Card name match">>
                        ELSE IF card_w = 1 THEN <<"Partial card match">> ELSE <<>>)
                    \o (IF source_w = 1 THEN <<"Both from bank sources">> ELSE <<>>)
                    \o (IF desc_w = 1 THEN <<"Both payment descriptions">> ELSE <<>>)
    IN  IF amount_diff >= 1000 \/ date_diff > max_date_diff_days THEN None
        ELSE Some([confidence |->
                       FloatAdd(FloatAdd(FloatAdd(FloatAdd(FloatAdd(<<0, 0>>, amount_w),
                                                           date_w), card_w), source_w),
                                desc_w),
                   match_reasons |-> reasons])

\* mutant of AcceptedScore: a confidence of exactly 0.6 is rejected
AcceptedScore_Above(score) ==
    score /= None /\ FloatGE(score[1].confidence, MinConfidence)
        /\ score[1].confidence /= MinConfidence

\* lines 155-156: a scored pair whose confidence reaches the threshold
AcceptedScore(score) == score /= None /\ FloatGE(score[1].confidence, MinConfidence)

\* lines 95-166: the credit-card candidates accepted for one checking row
Accepted(df, i) ==
    {j \in credit_card_payments(df) : AcceptedScore(Score(df[i], df[j]))}

RECURSIVE FirstAccepted_Last(_, _, _)
\* mutant of FirstAccepted: the last accepted credit-card candidate instead of the
\* first
FirstAccepted_Last(df, i, j) ==
    IF j > Len(df) THEN 0
    ELSE IF FirstAccepted_Last(df, i, j + 1) /= 0 THEN FirstAccepted_Last(df, i, j + 1)
    ELSE IF IsCreditCardPayment(df[j]) /\ AcceptedScore(Score(df[i], df[j])) THEN j
    ELSE 0

RECURSIVE FirstAccepted(_, _, _)
\* lines 95-166: the index of the first credit-card candidate from j on that is
\* accepted for the checking row i (break), 0 when there is none
FirstAccepted(df, i, j) ==
    IF j > Len(df) THEN 0
    ELSE IF IsCreditCardPayment(df[j]) /\ AcceptedScore(Score(df[i], df[j])) THEN j
    ELSE FirstAccepted(df, i, j + 1)

\* lines 157-165: the Match of an accepted pair
MatchOf(checking_row, cc_row, score) ==
    [checking_entry |-> checking_row, credit_card_entry |-> cc_row,
     amount |-> Abs(checking_row.amount), date |-> checking_row.date,
     confidence |-> score.confidence, match_reasons |-> score.match_reasons]

\* the matches of checking row i: its pair with the accepted row j, none when j = 0
MatchAt(df, i, j) ==
    IF j = 0 THEN <<>> ELSE <<MatchOf(df[i], df[j], Score(df[i], df[j])[1])>>

RECURSIVE MatchesFrom(_, _)
\* lines 80-166: the checking rows from index i on, each paired with the first
\* accepted credit-card row (break)
MatchesFrom(df, i) ==
    IF i > Len(df) THEN <<>>
    ELSE (IF IsCheckingPayment(df[i]) THEN MatchAt(df, i, FirstAccepted(df, i, 1))
          ELSE <<>>)
         \o MatchesFrom(df, i + 1)

\* lines 53-169
find_credit_card_payments(df) == MatchesFrom(df, 1)

RECURSIVE create_corrected_entries(_)
\* lines 171-226: two rows per match
create_corrected_entries(ms) ==
    IF ms = <<>> THEN <<>>
    ELSE LET match     == Head(ms)
             cc_account == match.credit_card_entry.account
             checking_desc == match.checking_entry.description
             orig_desc == IF checking_desc = "" \/ Len(checking_desc) < 10
                          THEN match.credit_card_entry.description ELSE checking_desc
             source_file == IF GetSourceFile(match.checking_entry) /= ""
                            THEN GetSourceFile(match.checking_entry)
                            ELSE GetSourceFile(match.credit_card_entry)
             pair == << [date |-> match.date, description |-> orig_desc,
                         account |-> match.checking_entry.account,
                         amount |-> -match.amount, source_file |-> source_file,
                         transaction_id |-> "", original_entry |-> "checking_payment",
                         _source_file |-> source_file],
                        [date |-> match.date, description |-> orig_desc,
                         account |-> CreditCardPrefix \o AfterLast(cc_account,
                                                                    CreditCardPrefix),
                         amount |-> match.amount, source_file |-> source_file,
                         transaction_id |-> "", original_entry |-> "credit_card_payment",
                         _source_file |-> source_file] >>
         IN  (IF Contains(cc_account, CreditCardPrefix) THEN pair ELSE <<>>)
             \o create_corrected_entries(Tail(ms))

\* lines 249-300: the indices one match marks for removal
IndicesToRemove(df, match) ==
    LET cc_account  == match.credit_card_entry.account
        correct_cc  == AfterLast(cc_account, CreditCardPrefix)
        checking_indices ==
            {i \in 1..Len(df) : /\ df[i].date = match.date
                                /\ df[i].account = match.checking_entry.account
                                /\ df[i].amount = match.checking_entry.amount}
        wrong_card_indices ==
            {i \in 1..Len(df) : /\ df[i].date = match.date
                                /\ StartsWith(df[i].account, CreditCardPrefix)
                                /\ df[i].amount = Abs(match.amount)
                                /\ AfterLast(df[i].account, CreditCardPrefix) /= correct_cc}
        cc_indices ==
            {i \in 1..Len(df) : /\ df[i].date = match.date
                                /\ df[i].account = cc_account
                                /\ df[i].amount = match.credit_card_entry.amount}
        expense_indices ==
            {i \in 1..Len(df) : /\ df[i].date = match.date
                                /\ StartsWith(df[i].account, "Expenses:")
                                /\ df[i].amount = Abs(match.amount)}
    IN  IF ~Contains(cc_account, CreditCardPrefix) THEN {}
        ELSE (IF checking_indices = {} \/ wrong_card_indices = {} THEN {}
              ELSE checking_indices \cup wrong_card_indices)
             \cup
             (IF cc_indices = {} \/ expense_indices = {} THEN {}
              ELSE cc_indices \cup expense_indices)

RECURSIVE Drop(_, _, _)
\* line 303: df.drop(indices); i is the index of the first row of rows
Drop(rows, indices, i) ==
    IF rows = <<>> THEN <<>>
    ELSE (IF i \in indices THEN <<>> ELSE <<Head(rows)>>)
         \o Drop(Tail(rows), indices, i + 1)

RECURSIVE DropInTurn(_, _)
\* the rows left when every match marks and drops its rows in the frame left by the
\* matches before it
DropInTurn(df, ms) ==
    IF ms = <<>> THEN df
    ELSE DropInTurn(Drop(df, IndicesToRemove(df, Head(ms)), 1), Tail(ms))

\* mutant of create_reconciled_ledger: the rows to remove are looked up in the frame
\* already changed by the earlier matches instead of the loaded ledger
create_reconciled_ledger_InTurn(df, ms) ==
    IF ms = <<>> THEN df
    ELSE LET kept_df      == DropInTurn(df, ms)
             corrected_df == create_corrected_entries(ms)
         IN  IF Len(corrected_df) > 0 THEN SortByDate(kept_df \o corrected_df)
             ELSE kept_df

\* lines 228-322: the reconciled ledger.  sort_values('date') is modelled as a stable
\* sort; the order of rows of equal date is not specified by pandas
create_reconciled_ledger(df, ms) ==
    IF ms = <<>> THEN df
    ELSE LET indices_to_remove ==
                 UNION {IndicesToRemove(df, ms[k]) : k \in 1..Len(ms)}
             kept_df      == Drop(df, indices_to_remove, 1)
             corrected_df == create_corrected_entries(ms)
         IN  IF Len(corrected_df) > 0 THEN SortByDate(kept_df \o corrected_df)
             ELSE kept_df

---------------------------------------------------------------------------
(* Inputs of the direct calls                                              *)

Descriptions == {
    "GROCERY STORE", "Bill Payment", "ONLINE BILL PAYMENT 0042",
    "529 Transfer", "Miracle Mart", "401k Loan Payment", "US BANK",
    "Mortgage Transfer", "Wire Transfer", "Credit Card Pmt", "PAYROLL DEPOSIT"}

OriginalDescriptions == {
    None, Some(""), Some("BILL PAYMENT"), Some("transfer to SAV 5990"),
    Some("Student Loan"), Some("IRA CONTRIB"), Some("CREDIT CARD")}

Categories == {
    None, Some(""), Some("Transfers"), Some("Credit Card Payments"), Some("Mortgages"),
    Some("Loans"), Some("Savings"), Some("Groceries"), Some("Credit Card Fees")}

Amounts == {-150000, 0, 150000}

AccountTypes == {"credit_card", "checking", "savings", "cd", "mortgage"}

AccountNames == {
    "Bank of America - Bank - Checking", "Bank of America - Bank - Regular Savings",
    "American Express - Credit Card", "Chase - CD", "Bank of America - Credit Card"}

PostingDescriptions == {
    "GROCERY STORE", "MN DIR ACH CONTRIB", "Vanguard IRA", "FORD CREDIT", "HELOC Payment"}

PostingCategories == {
    None, Some(""), Some("Groceries"), Some("Mortgages"), Some("Loans")}

SourceAccountNames == {None, Some(""), Some("Bank of America - Bank - Checking")}

TargetAccountNames == {None, Some("Bank of America - Bank - Regular Savings")}

Institutions == {"Unknown", "Bank of America", "AmericanExpress"}

---------------------------------------------------------------------------
(* State machine                                                           *)

\* before any call
NoCall == [called |-> FALSE]

MaxRows == 3

MaxPostings == 2

Row(date, amount, account, original, description, category, file) ==
    [Date |-> date, Amount |-> amount, AccountName |-> account,
     OriginalDescription |-> original, Description |-> description,
     Category |-> category, source_file |-> file]

CheckingFile == "bank/bank_of_america/checking.csv"

CardFile == "credit_card/american_express/activity.csv"

Checking == Some("Bank of America - Bank - Checking")

\* the rows a processed file may hold
Rows == {
    Row(Some(1), Some(-500000), Checking, None, Some("AMERICAN EXPRESS ACH PMT"),
        None, CheckingFile),
    Row(Some(1), Some(-500000), Some("American Express - Credit Card"), None,
        Some("ONLINE PAYMENT - THANK YOU"), None, CardFile),
    Row(Some(2), Some(-500000), Checking, None, Some("CREDIT CARD PAYMENT"),
        Some("Credit Card Payments"), CheckingFile),
    Row(Some(2), Some(-150000), Checking, None, Some("Bill Payment"),
        Some("Credit Card Payments"), CheckingFile),
    Row(Some(3), Some(200000), Some("Bank of America - Bank - Regular Savings"),
        Some("Online scheduled transfer from CHK 0129 Confirmation# 3987"),
        Some("Transfer"), Some("Transfers"), CheckingFile),
    Row(Some(1), Some(1000000), Checking, None, Some("PAYROLL DEPOSIT"),
        Some("Paychecks"), CheckingFile),
    Row(Some(3), Some(-75000), Some("Chase - CD"), None, Some(" "), None, ""),
    Row(Some(2), None, Checking, None, Some("GROCERY STORE"), None, CheckingFile),
    Row(Some(2), Some(-300000), Checking, None, Some("Online Banking Transfer"),
        Some("Transfers"), CheckingFile),
    Row(Some(2), Some(200000), Checking, Some("Wire Transfer from SAV 5990"),
        Some("Wire Transfer"), None, CheckingFile),
    Row(Some(3), Some(200000), Checking, Some("Transfer to SAV 5990"),
        Some("Transfer"), Some("Transfers"), CheckingFile) }

MaxLedgerEntries == 3

BankCardFile == "credit_card/bank_of_america/activity.csv"

\* the two rows of one entry of a ledger file that has the column _source_file: the
\* posting on account and its counter-posting on Expenses:Uncategorized
LedgerFileEntry(date, description, account, amount, file) ==
    << [date |-> date, description |-> description, account |-> account,
        amount |-> amount, source_file |-> file, transaction_id |-> "",
        original_entry |-> "", _source_file |-> file],
       [date |-> date, description |-> description, account |-> "Expenses:Uncategorized",
        amount |-> -amount, source_file |-> file, transaction_id |-> "",
        original_entry |-> "", _source_file |-> file] >>

\* the entries a ledger file handed to AccountMatcher may hold: three payments out of
\* a checking account and three payments received on a card
LedgerFileEntries == {
    LedgerFileEntry(1, "BANK OF AMERICA CREDIT CARD PAYMENT",
                    "Assets:BankOfAmerica:Checking", -500000, CheckingFile),
    LedgerFileEntry(1, "ACH PMT", "Assets:BankOfAmerica:Checking", -500500, ""),
    LedgerFileEntry(1, "CARD PAYMENT", "Assets:BankOfAmerica:Checking", -501000,
                    CheckingFile),
    LedgerFileEntry(1, "ONLINE PAYMENT - THANK YOU",
                    "Liabilities:CreditCards:BankOfAmerica", -500000, BankCardFile),
    LedgerFileEntry(4, "PAYMENT - THANK YOU", "Liabilities:CreditCards:Chase",
                    -500000, ""),
    LedgerFileEntry(5, "ONLINE PAYMENT - THANK YOU",
                    "Liabilities:CreditCards:BankOfAmerica", -500000, BankCardFile) }

RECURSIVE Flatten(_)
\* the rows of a sequence of entries, in order
Flatten(es) == IF es = <<>> THEN <<>> ELSE Head(es) \o Flatten(Tail(es))

EntryAccounts == {"Assets:BankOfAmerica:Checking", "Expenses:Uncategorized"}

EntryAmounts == {-150000, -11, -10, 0, 10, 11, 150000}

\* every sequence over S of length at most n
SeqUpTo(S, n) == UNION {[1..k -> S] : k \in 0..n}

BuilderIdle ==
    /\ transactions_df = <<>>
    /\ entries = <<>>
    /\ converted = 0
    /\ failed = 0

MatcherIdle ==
    /\ ledger_csv = <<>>
    /\ ledger_df = None
    /\ matches = <<>>
    /\ reconciled_df = None
    /\ pc = "start"

---------------------------------------------------------------------------
(* data_curation/deduplication: exact and fuzzy duplicates                 *)

RECURSIVE Collapse(_)
\* the rest of " ".join(s.split()) once the leading whitespace is gone
Collapse(s) ==
    IF s = "" THEN ""
    ELSE IF SubSeq(s, 1, 1) \in Whitespace
         THEN IF LStrip(s) = "" THEN "" ELSE " " \o Collapse(LStrip(s))
         ELSE SubSeq(s, 1, 1) \o Collapse(Tail(s))

\* " ".join(str(description).lower().split()) if description else ""
NormalizedDescription(description) == Collapse(LStrip(Lower(description)))

\* hashlib.md5(text).hexdigest() and the SQL function md5(text): the same function
\* of the text, taken to be free of collisions
md5(text) == <<"md5", text>>

\* lines 43-53
calculate_description_hash(description) == md5(NormalizedDescription(description))

\* lines 75-80: the stored description is hashed as it is stored
IsExactDuplicate(row, account_id, date, amount, description) ==
    /\ row.account_id = account_id
    /\ row.transaction_date = date
    /\ row.amount = amount
    /\ md5(row.description) = calculate_description_hash(description)

\* lines 56-82: the ids of the rows of the table, read when the query runs
find_exact_duplicates(session, account_id, date, amount, description) ==
    LET duplicates == SelectSeq(session, LAMBDA row : IsExactDuplicate(row, account_id, date, amount, description))
    IN  [k \in DOMAIN duplicates |-> duplicates[k].id]

date_tolerance_days == 3

\* Decimal('0.50')
amount_tolerance == 500

\* the same window with the ends excluded
IsCandidate_OpenWindow(row, account_id, date, amount) ==
    /\ row.account_id = account_id
    /\ row.transaction_date > date - date_tolerance_days
    /\ row.transaction_date < date + date_tolerance_days
    /\ row.amount > amount - amount_tolerance
    /\ row.amount < amount + amount_tolerance

\* lines 103-116: the window of the fuzzy query, both ends included
IsCandidate(row, account_id, date, amount) ==
    /\ row.account_id = account_id
    /\ row.transaction_date >= date - date_tolerance_days
    /\ row.transaction_date <= date + date_tolerance_days
    /\ row.amount >= amount - amount_tolerance
    /\ row.amount <= amount + amount_tolerance

\* lines 120-127: the confidence in tenths (0.9, 0.7, 0.5)
FuzzyConfidence(description, txn_desc) ==
    IF calculate_description_hash(txn_desc) = calculate_description_hash(description) THEN 9
    ELSE IF Contains(Lower(txn_desc), Lower(description)) \/ Contains(Lower(description), Lower(txn_desc)) THEN 7
    ELSE 5

\* lines 85-131
find_fuzzy_duplicates(session, account_id, date, amount, description) ==
    LET candidates == SelectSeq(session, LAMBDA row : IsCandidate(row, account_id, date, amount))
    IN  [k \in DOMAIN candidates |->
            <<candidates[k].id, FuzzyConfidence(description, candidates[k].description)>>]

\* m[1] >= 0.8, the confidence in tenths
IsHighConfidence(m) == m[2] >= 8

\* lines 179-193: the entry of a record whose fuzzy_matches are not empty
FuzzyEntry(txn_data, fuzzy_matches) ==
    LET high_confidence == SelectSeq(fuzzy_matches, IsHighConfidence)
    IN  IF high_confidence /= <<>>
        THEN [transaction_data |-> txn_data,
              existing_transaction_ids |-> [k \in DOMAIN high_confidence |-> high_confidence[k][1]],
              match_type |-> "fuzzy_high_confidence",
              confidence |-> high_confidence[1][2]]
        ELSE [transaction_data |-> txn_data,
              existing_transaction_ids |-> [k \in DOMAIN fuzzy_matches |-> fuzzy_matches[k][1]],
              match_type |-> "fuzzy_low_confidence",
              confidence |-> CHOOSE c \in {fuzzy_matches[k][2] : k \in DOMAIN fuzzy_matches} :
                                 \A k \in DOMAIN fuzzy_matches : fuzzy_matches[k][2] <= c]

\* lines 177-197 without the continue of line 194: the pair of lists
PlaceFuzzy_NoContinue(new, fuzzy, txn_data, fuzzy_matches) ==
    IF fuzzy_matches /= <<>>
    THEN <<Append(new, txn_data), Append(fuzzy, FuzzyEntry(txn_data, fuzzy_matches))>>
    ELSE <<Append(new, txn_data), fuzzy>>

\* lines 177-197: a record without an exact duplicate goes to fuzzy_duplicates when
\* the window holds a row and to new_transactions otherwise; the pair of lists
PlaceFuzzy(new, fuzzy, txn_data, fuzzy_matches) ==
    IF fuzzy_matches /= <<>>
    THEN <<new, Append(fuzzy, FuzzyEntry(txn_data, fuzzy_matches))>>
    ELSE <<Append(new, txn_data), fuzzy>>

---------------------------------------------------------------------------
(* ledger.py: Block                                                        *)

\* datetime.max, later than every time of the clock
DatetimeMax == 9999

\* Ledger.__init__: single_entry=False, which Block keeps
single_entry == FALSE

\* class Type: the value of an account type
Type == [ASSETS |-> 1, LIABILITIES |-> -1, INCOME |-> -1, EXPENSES |-> 1, EQUITY |-> -1]

\* Account(name=name, type=Type[name])
Account(name) == [name |-> name, type |-> Type[name]]

\* lines 43-44
is_closed(closed_at) == closed_at < DatetimeMax

RECURSIVE balance(_)
\* lines 57-63
balance(postings) ==
    IF postings = <<>> THEN 0
    ELSE Head(postings)[1].type * Head(postings)[2] + balance(Tail(postings))

\* np.sign
Sign(n) == IF n > 0 THEN 1 ELSE IF n < 0 THEN -1 ELSE 0

\* lines 46-52 without the guard of line 47
post_Unguarded(postings, closed_at, account, amount) ==
    [raised |-> "", journal |-> Append(postings, <<account, amount>>)]

\* lines 46-54: the exception raised ("" for none) and the journal afterwards
post(postings, closed_at, account, amount) ==
    IF is_closed(closed_at)
    THEN [raised |-> "ValueError", journal |-> postings]
    ELSE [raised |-> "", journal |-> Append(postings, <<account, amount>>)]

\* lines 71-72
OverdraftAccount(overdraft_account) ==
    IF overdraft_account = None THEN [name |-> "OVERDRAFT", type |-> Type.LIABILITIES]
    ELSE overdraft_account[1]

\* lines 74-76: the amount of the overdraft posting
OverdraftAmount(account, bal) == IF account.type = Sign(bal) THEN -1 * bal ELSE bal

\* lines 64-86: the exception raised, the journal and the field closed afterwards
close(postings, closed_at, overdraft_account, now) ==
    IF ~single_entry /\ Len(postings) = 1
    THEN [raised |-> "ValueError", journal |-> postings, closed |-> closed_at]
    ELSE IF balance(postings) = 0
    THEN [raised |-> "", journal |-> postings, closed |-> now]
    ELSE \* self.post(overdraft_account, balance)
         LET posted == post(postings, closed_at, OverdraftAccount(overdraft_account),
                            OverdraftAmount(OverdraftAccount(overdraft_account), balance(postings)))
         IN  IF posted.raised /= ""
             THEN [raised |-> posted.raised, journal |-> postings, closed |-> closed_at]
             ELSE [raised |-> "", journal |-> posted.journal, closed |-> now]

---------------------------------------------------------------------------
(* Inputs of the deduplication and of the block                           *)

\* the largest table and the largest batch of the deduplication runs
MaxStore == 2

MaxBatch == 3

\* a row of the table transactions
StoreRow(id, account_id, transaction_date, amount, description) ==
    [id |-> id, account_id |-> account_id, transaction_date |-> transaction_date,
     amount |-> amount, description |-> description]

\* stored transactions around the incoming ones: on the same day with the same amount,
\* on the ends of the date and amount window, and just outside it
StoreRows == {
    StoreRow("t1", "acct-1", 4, -25000, "coffee shop"),
    StoreRow("t2", "acct-1", 4, -25000, "Coffee Shop"),
    StoreRow("t3", "acct-1", 1, -25500, "COFFEE"),
    StoreRow("t4", "acct-1", 7, -24500, "Rent"),
    StoreRow("t5", "acct-1", 0, -25000, "coffee shop"),
    StoreRow("t6", "acct-1", 8, -25000, "coffee shop"),
    StoreRow("t7", "acct-1", 4, -25510, "coffee shop"),
    StoreRow("t8", "acct-1", 4, -24490, "coffee shop"),
    StoreRow("t9", "acct-2", 4, -25000, "coffee shop")}

\* a dictionary of transactions_data
TxnData(account_id, transaction_date, amount, description) ==
    [account_id |-> account_id, transaction_date |-> transaction_date,
     amount |-> amount, description |-> description]

IncomingTransactions == {
    TxnData("acct-1", 4, -25000, "Coffee Shop"),
    TxnData("acct-1", 4, -25000, "coffee  shop"),
    TxnData("acct-1", 4, -25000, "Coffee"),
    TxnData("acct-2", 4, -25000, "coffee shop")}

\* the tables of at most n rows, inserted in the order t1 .. t9; a query returns
\* the rows in the order of insertion
Tables(n) ==
    {t \in SeqUpTo(StoreRows, n) :
        \A i, j \in DOMAIN t :
            i < j => Find("123456789", SubSeq(t[i].id, 2, 2)) < Find("123456789", SubSeq(t[j].id, 2, 2))}

DedupIdle ==
    /\ store = <<>>
    /\ transactions_data = <<>>
    /\ new_transactions = <<>>
    /\ exact_duplicates = <<>>
    /\ fuzzy_duplicates = <<>>
    /\ deduplication_report = None
    /\ dedup_pc = <<0, "idle">>

\* the most postings the calls of post put on the block
MaxJournal == 3

BlockAccounts == {Account("ASSETS"), Account("LIABILITIES")}

BlockAmounts == {-100, 50, 100}

\* the argument overdraft_account of close
Overdrafts == {None, Some(Account("ASSETS")), Some(Account("EQUITY"))}

\* the values of datetime.now(timezone.utc) at a close
Nows == {1, 2}

\* lines 38-41: b = Block()
NewBlock ==
    /\ journal = <<>>
    /\ closed = DatetimeMax
    /\ last_call = [op |-> "__init__", args |-> <<>>, raised |-> ""]

---------------------------------------------------------------------------
(* Specifications                                                          *)

\* a new LedgerBuilder over the processed files, or the arguments of one direct
\* construction of a LedgerEntry
Init ==
    /\ cls = NoCall
    /\ syn = NoCall
    /\ entries = <<>>
    /\ converted = 0
    /\ failed = 0
    /\ MatcherIdle
    /\ DedupIdle
    /\ NewBlock
    /\ \/ /\ ent = NoCall
          /\ transactions_df \in SeqUpTo(Rows, MaxRows)
       \/ /\ ent \in [called : {FALSE}, date : {1}, description : {"Adjustment"},
                       postings : SeqUpTo(EntryAccounts \X EntryAmounts, MaxPostings),
                       ret : {None}]
          /\ transactions_df = <<>>

\* the arguments of one call of classify_transaction_type, drawn from the input sets
InitClassifier ==
    /\ cls \in [called : {FALSE}, description : Descriptions, amount : Amounts,
                account_type : AccountTypes, category : Categories,
                original_description : OriginalDescriptions, ret : {""}]
    /\ syn = NoCall
    /\ ent = NoCall
    /\ BuilderIdle
    /\ MatcherIdle
    /\ DedupIdle
    /\ NewBlock

\* the call classify_transaction_type(description, amount, account_type, category,
\* original_description): the function reads no state and writes none
Classify ==
    /\ ~cls.called
    /\ cls' = [cls EXCEPT !.called = TRUE,
                          !.ret = classify_transaction_type(cls.description, cls.amount,
                                      cls.account_type, cls.category,
                                      cls.original_description)]
    /\ UNCHANGED <<syn, ent, builder, matcher, pc, dedup, block>>

NextClassifier == Classify

SpecClassifier == InitClassifier /\ [][NextClassifier]_vars

\* the arguments of one call of create_ledger_postings, drawn from the input sets
InitPostings ==
    /\ cls = NoCall
    /\ syn \in [called : {FALSE}, account_name : AccountNames, amount : Amounts,
                transaction_type : Kinds, description : PostingDescriptions,
                category : PostingCategories, source_account_name : SourceAccountNames,
                target_account_name : TargetAccountNames, institution : Institutions,
                ret : {<<>>}]
    /\ ent = NoCall
    /\ BuilderIdle
    /\ MatcherIdle
    /\ DedupIdle
    /\ NewBlock

\* the call create_ledger_postings(account_name, amount, transaction_type, description,
\* None, category, source_account_name, target_account_name, institution)
CreatePostings ==
    /\ ~syn.called
    /\ syn' = [syn EXCEPT !.called = TRUE,
                          !.ret = create_ledger_postings(syn.account_name, syn.amount,
                                      syn.transaction_type, syn.description, syn.category,
                                      syn.source_account_name, syn.target_account_name,
                                      syn.institution)]
    /\ UNCHANGED <<cls, ent, builder, matcher, pc, dedup, block>>

NextPostings == CreatePostings

SpecPostings == InitPostings /\ [][NextPostings]_vars

\* a new AccountMatcher(ledger_path) over a ledger file of up to MaxLedgerEntries
\* entries (account_matcher 30-40)
InitMatcher ==
    /\ cls = NoCall
    /\ syn = NoCall
    /\ ent = NoCall
    /\ BuilderIdle
    /\ DedupIdle
    /\ NewBlock
    /\ ledger_csv \in {Flatten(es) : es \in SeqUpTo(LedgerFileEntries, MaxLedgerEntries)}
    /\ ledger_df = None
    /\ matches = <<>>
    /\ reconciled_df = None
    /\ pc = "exported"

\* LedgerEntry(date, description, postings, {}) called directly
NewLedgerEntry ==
    /\ ent /= NoCall
    /\ ~ent.called
    /\ ent' = [ent EXCEPT !.called = TRUE,
                          !.ret = LedgerEntry(ent.date, ent.description, ent.postings,
                                              [source_file |-> ""])]
    /\ UNCHANGED <<cls, syn, builder, matcher, pc, dedup, block>>

\* LedgerBuilder.build_ledger_from_processed_files (ledger_builder 358-400)
BuildLedger ==
    /\ pc = "start"
    /\ pc' = "built"
    /\ IF transactions_df = <<>>
       THEN UNCHANGED <<entries, converted, failed>>
       ELSE \E done \in {BuildLoop(transactions_df, <<entries, 0, 0>>)} :
                /\ entries' = SortByDate(done[1])
                /\ converted' = done[2]
                /\ failed' = done[3]
    /\ UNCHANGED <<cls, syn, ent, transactions_df, matcher, dedup, block>>

\* LedgerBuilder.export_to_csv (ledger_builder 482-504)
ExportToCsv ==
    /\ pc = "built"
    /\ pc' = "exported"
    /\ ledger_csv' = ExportRows(entries)
    /\ UNCHANGED <<cls, syn, ent, builder, ledger_df, matches, reconciled_df, dedup, block>>

\* AccountMatcher.find_credit_card_payments, which loads ledger.csv first
\* (account_matcher 42-51, 53-169); pandas cannot read a file without columns
FindCreditCardPayments ==
    /\ pc = "exported"
    /\ IF ledger_csv = <<>>
       THEN /\ pc' = "EmptyDataError"
            /\ UNCHANGED <<ledger_df, matches>>
       ELSE /\ pc' = "matched"
            /\ ledger_df' = Some(ledger_csv)
            /\ matches' = find_credit_card_payments(ledger_csv)
    /\ UNCHANGED <<cls, syn, ent, builder, ledger_csv, reconciled_df, dedup, block>>

\* AccountMatcher.create_reconciled_ledger (account_matcher 228-322)
CreateReconciledLedger ==
    /\ pc = "matched"
    /\ pc' = "reconciled"
    /\ reconciled_df' = Some(create_reconciled_ledger(ledger_df[1], matches))
    /\ UNCHANGED <<cls, syn, ent, builder, ledger_csv, ledger_df, matches, dedup, block>>

Next ==
    \/ NewLedgerEntry
    \/ BuildLedger
    \/ ExportToCsv
    \/ FindCreditCardPayments
    \/ CreateReconciledLedger

Spec == Init /\ [][Next]_vars

NextMatcher ==
    \/ FindCreditCardPayments
    \/ CreateReconciledLedger

SpecMatcher == InitMatcher /\ [][NextMatcher]_vars

\* deduplicate_transactions(session, transactions_data) is called on a table of at
\* most MaxStore rows with a batch of at most MaxBatch records (lines 153-155)
InitDedup ==
    /\ cls = NoCall
    /\ syn = NoCall
    /\ ent = NoCall
    /\ BuilderIdle
    /\ MatcherIdle
    /\ NewBlock
    /\ store \in Tables(MaxStore)
    /\ transactions_data \in SeqUpTo(IncomingTransactions, MaxBatch)
    /\ new_transactions = <<>>
    /\ exact_duplicates = <<>>
    /\ fuzzy_duplicates = <<>>
    /\ deduplication_report = None
    /\ dedup_pc = <<1, "exact">>

\* lines 157-172: the next record is read and the exact query runs on the table
FindExactDuplicates ==
    /\ dedup_pc[2] = "exact"
    /\ dedup_pc[1] <= Len(transactions_data)
    /\ \E txn_data \in {transactions_data[dedup_pc[1]]} :
       \E exact_matches \in {find_exact_duplicates(store, txn_data.account_id,
                                 txn_data.transaction_date, txn_data.amount,
                                 txn_data.description)} :
            IF exact_matches /= <<>>
            THEN /\ exact_duplicates' = Append(exact_duplicates,
                                             [transaction_data |-> txn_data,
                                              existing_transaction_ids |-> exact_matches,
                                              match_type |-> "exact"])
                 /\ dedup_pc' = <<dedup_pc[1] + 1, "exact">>
            ELSE /\ UNCHANGED exact_duplicates
                 /\ dedup_pc' = <<dedup_pc[1], "fuzzy">>
    /\ UNCHANGED <<store, transactions_data, new_transactions, fuzzy_duplicates,
                   deduplication_report>>
    /\ UNCHANGED <<cls, syn, ent, builder, matcher, pc, block>>

\* lines 174-197: the fuzzy query runs on the table and the record is placed
FindFuzzyDuplicates ==
    /\ dedup_pc[2] = "fuzzy"
    /\ \E txn_data \in {transactions_data[dedup_pc[1]]} :
       \E fuzzy_matches \in {find_fuzzy_duplicates(store, txn_data.account_id,
                                 txn_data.transaction_date, txn_data.amount,
                                 txn_data.description)} :
       \E placed \in {PlaceFuzzy(new_transactions, fuzzy_duplicates, txn_data, fuzzy_matches)} :
            /\ new_transactions' = placed[1]
            /\ fuzzy_duplicates' = placed[2]
    /\ dedup_pc' = <<dedup_pc[1] + 1, "exact">>
    /\ UNCHANGED <<store, transactions_data, exact_duplicates, deduplication_report>>
    /\ UNCHANGED <<cls, syn, ent, builder, matcher, pc, block>>

\* lines 199-209: the loop is over and the report is returned
ReturnReport ==
    /\ dedup_pc = <<Len(transactions_data) + 1, "exact">>
    /\ dedup_pc' = <<dedup_pc[1], "returned">>
    /\ deduplication_report' = Some([total_processed |-> Len(transactions_data),
                                     new_count |-> Len(new_transactions),
                                     exact_duplicate_count |-> Len(exact_duplicates),
                                     fuzzy_duplicate_count |-> Len(fuzzy_duplicates)])
    /\ UNCHANGED <<store, transactions_data, new_transactions, exact_duplicates,
                   fuzzy_duplicates>>
    /\ UNCHANGED <<cls, syn, ent, builder, matcher, pc, block>>

\* another session inserts a transaction and commits (tsv_importer 182-207)
InsertTransaction ==
    /\ Len(store) < MaxStore
    /\ \E row \in StoreRows :
            /\ \A k \in DOMAIN store : store[k].id /= row.id
            /\ store' = Append(store, row)
    /\ UNCHANGED <<transactions_data, new_transactions, exact_duplicates,
                   fuzzy_duplicates, deduplication_report, dedup_pc>>
    /\ UNCHANGED <<cls, syn, ent, builder, matcher, pc, block>>

NextDedup ==
    \/ FindExactDuplicates
    \/ FindFuzzyDuplicates
    \/ ReturnReport

\* one call of deduplicate_transactions on a table nobody else writes
SpecDedup == InitDedup /\ [][NextDedup]_vars

NextDedupWriter ==
    \/ FindExactDuplicates
    \/ FindFuzzyDuplicates
    \/ ReturnReport
    \/ InsertTransaction

\* one call of deduplicate_transactions while another session inserts rows
SpecDedupWriter == InitDedup /\ [][NextDedupWriter]_vars

\* b = Block() (ledger 38-41)
InitBlock ==
    /\ cls = NoCall
    /\ syn = NoCall
    /\ ent = NoCall
    /\ BuilderIdle
    /\ MatcherIdle
    /\ DedupIdle
    /\ NewBlock

\* b.post(account, amount) (ledger 46-54)
Post ==
    /\ is_closed(closed) \/ Len(journal) < MaxJournal
    /\ \E account \in BlockAccounts, amount \in BlockAmounts :
       \E done \in {post(journal, closed, account, amount)} :
            /\ journal' = done.journal
            /\ last_call' = [op |-> "post", args |-> <<account, amount>>, raised |-> done.raised]
    /\ UNCHANGED closed
    /\ UNCHANGED <<cls, syn, ent, builder, matcher, pc, dedup>>

\* b.close(overdraft_account) (ledger 64-86)
Close ==
    /\ \E overdraft_account \in Overdrafts, now \in Nows :
       \E done \in {close(journal, closed, overdraft_account, now)} :
            /\ journal' = done.journal
            /\ closed' = done.closed
            /\ last_call' = [op |-> "close", args |-> <<overdraft_account>>, raised |-> done.raised]
    /\ UNCHANGED <<cls, syn, ent, builder, matcher, pc, dedup>>

NextBlock ==
    \/ Post
    \/ Close

SpecBlock == InitBlock /\ [][NextBlock]_vars

---------------------------------------------------------------------------
(* Claims about the classifier, checked under SpecClassifier               *)

\* C4: whenever the description or the original description contains the marker
\* "bill payment" (case-insensitive), the classifier returns 'expense', whatever the
\* category hint, the amount and the account kind.
C4_BillPaymentPrecedence ==
    (cls.called /\ HasBillPayment(cls.description, cls.original_description))
        => cls.ret = "expense"

\* C4 witness: a classified record that carries the marker and a credit-card-payment
\* category at the same time.
C4_Witness ==
    /\ cls.called
    /\ cls.description = "Bill Payment"
    /\ cls.category = Some("Credit Card Payments")
    /\ cls.ret = "expense"

\* C6: without a bill-payment marker the kind is given by the first applicable rule
\* among (2) category hint in the fixed table, (3) investment markers, (4) liability
\* markers, (5) transfer markers.
C6_ResolutionOrder ==
    (cls.called /\ ~HasBillPayment(cls.description, cls.original_description)) =>
        LET d == Lower(cls.description)
            o == Lower(OrElse(cls.original_description, ""))
            c == Lower(OrElse(cls.category, ""))
            hint == IF c \in {"transfers", "transfer"} THEN "transfer"
                    ELSE IF c \in {"credit card payments", "credit card payment",
                                   "credit cards"} THEN "credit_card_payment"
                    ELSE IF c \in {"mortgages", "mortgage", "loans", "loan",
                                   "student loan", "student loans"} THEN "liability_payment"
                    ELSE IF c \in {"savings", "529", "529k", "investment", "investments"}
                         THEN "investment_contribution"
                    ELSE "none"
            inv == AnyIn(investment_keywords, d, o)
            lia == AnyIn(liability_keywords, d, o)
            tra == AnyIn(transfer_keywords, d, o)
        IN  /\ hint /= "none" => cls.ret = hint
            /\ (hint = "none" /\ inv) => cls.ret = "investment_contribution"
            /\ (hint = "none" /\ ~inv /\ lia) => cls.ret = "liability_payment"
            /\ (hint = "none" /\ ~inv /\ ~lia /\ tra) => cls.ret = "transfer"

\* C6 witness: category 'Transfers' with a '529' description gives transfer.
C6_Witness ==
    /\ cls.called
    /\ cls.description = "529 Transfer"
    /\ cls.category = Some("Transfers")
    /\ cls.ret = "transfer"

\* C7: when none of rules 1-5 applies the kind is decided by account kind and sign:
\* credit card and negative gives expense; checking/savings and positive gives income;
\* checking/savings and negative gives credit_card_payment with a credit-card marker
\* and expense without; everything else gives unknown.
C7_Fallback ==
    LET d == Lower(cls.description)
        o == Lower(OrElse(cls.original_description, ""))
        c == Lower(OrElse(cls.category, ""))
        mapped == c \in {"transfers", "transfer", "credit card payments",
                         "credit card payment", "credit cards", "mortgages", "mortgage",
                         "loans", "loan", "student loan", "student loans", "savings",
                         "529", "529k", "investment", "investments"}
        marker == Contains(d, "credit card") \/ Contains(o, "credit card")
                     \/ Contains(c, "credit card")
        bank == cls.account_type \in {"checking", "savings"}
    IN  (/\ cls.called
         /\ ~HasBillPayment(cls.description, cls.original_description)
         /\ ~mapped
         /\ ~AnyIn(investment_keywords, d, o)
         /\ ~AnyIn(liability_keywords, d, o)
         /\ ~AnyIn(transfer_keywords, d, o))
        => cls.ret = (IF cls.account_type = "credit_card" /\ cls.amount < 0 THEN "expense"
                      ELSE IF bank /\ cls.amount > 0 THEN "income"
                      ELSE IF bank /\ cls.amount < 0 /\ marker THEN "credit_card_payment"
                      ELSE IF bank /\ cls.amount < 0 THEN "expense"
                      ELSE "unknown")

\* C7 witness: a credit-card account with a positive amount and no marker at all
\* falls through to unknown.
C7_Witness ==
    /\ cls.called
    /\ cls.description = "GROCERY STORE"
    /\ cls.original_description = None
    /\ cls.category = Some("Groceries")
    /\ cls.account_type = "credit_card"
    /\ cls.amount > 0
    /\ cls.ret = "unknown"

---------------------------------------------------------------------------
(* Claims about the posting synthesizer, checked under SpecPostings        *)

\* C1: for every kind, every signed amount and every combination of present/absent
\* category, source and target account, create_ledger_postings returns exactly two
\* postings whose amounts sum to exactly zero.
C1_TwoBalancedPostings ==
    syn.called => (Len(syn.ret) = 2 /\ SumAmounts(syn.ret) = 0)

\* C1 witness: a resolved transfer of a negative amount between two accounts.
C1_Witness ==
    /\ syn.called
    /\ syn.transaction_type = "transfer"
    /\ Truthy(syn.source_account_name)
    /\ syn.amount < 0
    /\ syn.ret[1][2] < 0
    /\ syn.ret[2][2] > 0

\* C9 (as claimed): the record's own account is given the path of its
\* (account_name, institution) resolution in the postings of every kind that posts
\* to it (expense, income, unknown, liability_payment, investment_contribution,
\* credit_card_payment).
C9_OwnAccountSamePath ==
    (/\ syn.called
     /\ syn.transaction_type \in {"expense", "income", "unknown", "liability_payment",
                                  "investment_contribution", "credit_card_payment"})
    => \E i \in 1..Len(syn.ret) :
          syn.ret[i][1] = get_ledger_account(syn.account_name, None, syn.institution)

\* C10 (as claimed): for kind unknown the counter-account is Expenses:Unknown for a
\* negative amount and Income:Unknown otherwise, with or without a category hint.
C10_UnknownBucketsAsClaimed ==
    (syn.called /\ syn.transaction_type = "unknown") =>
        LET own == get_ledger_account(syn.account_name, None, syn.institution)
        IN  IF syn.amount < 0
            THEN syn.ret = << <<own, syn.amount>>, <<"Expenses:Unknown", -syn.amount>> >>
            ELSE syn.ret = << <<"Income:Unknown", -syn.amount>>, <<own, syn.amount>> >>

\* C10 (amended): for kind unknown the counter-account is Expenses:{category} for a
\* negative amount and Income:{category} otherwise, where the bucket Unknown is used
\* only when the record carries no (non-empty) category hint.
C10_UnknownBuckets ==
    (syn.called /\ syn.transaction_type = "unknown") =>
        LET own    == get_ledger_account(syn.account_name, None, syn.institution)
            bucket == IF syn.category \in {None, Some("")} THEN "Unknown"
                      ELSE syn.category[1]
        IN  IF syn.amount < 0
            THEN syn.ret = << <<own, syn.amount>>,
                              <<"Expenses:" \o bucket, -syn.amount>> >>
            ELSE syn.ret = << <<"Income:" \o bucket, -syn.amount>>,
                              <<own, syn.amount>> >>

\* C10 witness: an unknown record of amount zero that carries a category hint is
\* posted as income from that category.
C10_Witness ==
    /\ syn.called
    /\ syn.transaction_type = "unknown"
    /\ syn.amount = 0
    /\ syn.category = Some("Groceries")
    /\ syn.ret[1][1] = "Income:Groceries"

\* the liability account a specific marker in text stands for, "" when text carries none
LiabilityMarker(text, institution) ==
    IF Contains(text, "mortgage") THEN "Liabilities:Mortgage"
    ELSE IF Contains(text, "student loan") THEN "Liabilities:StudentLoans"
    ELSE IF Contains(text, "auto loan") \/ Contains(text, "car loan")
            \/ Contains(text, "vehicle loan") THEN "Liabilities:AutoLoan"
    ELSE IF Contains(text, "heloc") THEN "Liabilities:HELOC:" \o institution
    ELSE ""

\* C13 (as claimed): for kind liability_payment the liability account is
\* Liabilities:Mortgage, Liabilities:StudentLoans, Liabilities:AutoLoan or
\* Liabilities:HELOC:{institution} for the matching marker, the category being
\* consulted before the description (the servicer names FORD CREDIT and US BANK count
\* as auto-loan and mortgage markers of the description), and the generic
\* Liabilities:Loans whenever neither carries a specific marker.
C13_LiabilityTable ==
    (syn.called /\ syn.transaction_type = "liability_payment") =>
        LET cat  == LiabilityMarker(Lower(OrElse(syn.category, "")), syn.institution)
            desc == IF Contains(Lower(syn.description), "ford credit")
                        THEN "Liabilities:AutoLoan"
                    ELSE IF Contains(Lower(syn.description), "us bank")
                        THEN "Liabilities:Mortgage"
                    ELSE LiabilityMarker(Lower(syn.description), syn.institution)
        IN  /\ Len(syn.ret) = 2
            /\ syn.ret[2][1] = (IF cat /= "" THEN cat
                                ELSE IF desc /= "" THEN desc
                                ELSE "Liabilities:Loans")

---------------------------------------------------------------------------
(* Claims about the builder and the matcher, checked under Spec            *)

\* C2: the construction of a LedgerEntry succeeds if and only if the absolute value
\* of the sum of its posting amounts is at most 0.01 (exactly 0.01 is accepted), no
\* entry exists otherwise, and every entry held in LedgerBuilder.entries has
\* |sum(posting.amount)| <= 0.01.
C2_BalanceWithinTolerance ==
    /\ ent.called => (ent.ret /= None <=> Abs(SumAmounts(ent.postings)) <= 10)
    /\ \A i \in 1..Len(entries) : Abs(SumAmounts(entries[i].postings)) <= 10

\* C2 witness: a construction whose postings are off by exactly 0.01 has produced an
\* entry.
C2_Witness ==
    /\ ent.called
    /\ Abs(SumAmounts(ent.postings)) = 10
    /\ ent.ret /= None
    /\ ent.ret[1].postings = ent.postings

RECURSIVE SumOver(_, _)
\* the sum of the amounts of the rows of df at the indices of S
SumOver(df, S) ==
    IF S = {} THEN 0
    ELSE LET i == CHOOSE j \in S : TRUE
         IN  df[i].amount + SumOver(df, S \ {i})

\* the rows of df that make up the entry of row i: same date, same description
EntryOf(df, i) ==
    {j \in 1..Len(df) : df[j].date = df[i].date /\ df[j].description = df[i].description}

\* C3 (as claimed): in the ledger returned by create_reconciled_ledger for the matches
\* of find_credit_card_payments on a ledger of balanced entries, every entry (the
\* postings of one date and description) sums to zero within 0.01, and the amounts of
\* the whole ledger sum to zero.
C3_ReconciledBalances ==
    pc = "reconciled" =>
        /\ \A i \in 1..Len(reconciled_df[1]) :
               Abs(SumOver(reconciled_df[1], EntryOf(reconciled_df[1], i))) <= 10
        /\ SumOver(reconciled_df[1], 1..Len(reconciled_df[1])) = 0

\* C5 (as claimed): the record with description "Bill Payment", category hint
\* "Credit Card Payments" and amount -150.00 is built into a posting on its own
\* account and a posting on Expenses:Uncategorized, and no posting of the entry names
\* a Liabilities:CreditCards:* account.
C5_BillPayOverride ==
    \A i \in 1..Len(entries) :
        (/\ entries[i].description = "Bill Payment"
         /\ entries[i].metadata.category = Some("Credit Card Payments"))
        => /\ Len(entries[i].postings) = 2
           /\ entries[i].postings[1][2] = -150000
           /\ entries[i].postings[2] = <<"Expenses:Uncategorized", 150000>>
           /\ \A k \in 1..Len(entries[i].postings) :
                  ~StartsWith(entries[i].postings[k][1], CreditCardPrefix)

\* a row that carries a date, an amount and an account name (ledger_builder 140-147)
Complete(r) == r.Date /= None /\ r.Amount /= None /\ Truthy(r.AccountName)

\* the kind the builder's classifier call gives row r
RowKind(r) == classify_transaction_type(RowDescription(r), r.Amount[1], infer_account_type(r.AccountName[1], r.source_file), StripOptional(r.Category), StripOptional(r.OriginalDescription))

\* the source and the target account the builder resolves for row r as a transfer
RowTransfer(r) == TransferAccounts("transfer", RowDescription(r), StripOptional(r.OriginalDescription), r.AccountName[1], StripOptional(r.Category), extract_institution(r.AccountName[1], r.source_file))

\* the positions of the entries built from row r
EntriesOfRow(r) ==
    {k \in 1..Len(entries) : /\ entries[k].date = r.Date[1]
                             /\ entries[k].description = RowDescription(r)
                             /\ entries[k].metadata.account_name = r.AccountName[1]}

\* C11: a record classified transfer whose source account cannot be resolved is not
\* dropped: the builder holds exactly one entry per such record, its postings are
\* those the unknown kind produces for the same record (own account against
\* Expenses:* for a negative amount, Income:* otherwise) and they sum to zero.
C11_UnresolvedTransferFallsBack ==
    pc = "built" =>
        \A i \in 1..Len(transactions_df) :
            (/\ Complete(transactions_df[i])
             /\ RowKind(transactions_df[i]) = "transfer"
             /\ ~Truthy(RowTransfer(transactions_df[i])[1]))
            => /\ Cardinality(EntriesOfRow(transactions_df[i]))
                    = Cardinality({j \in 1..Len(transactions_df) :
                                       transactions_df[j] = transactions_df[i]})
               /\ \A k \in EntriesOfRow(transactions_df[i]) :
                      /\ entries[k].metadata.transaction_type = "transfer"
                      /\ entries[k].postings =
                             create_ledger_postings(transactions_df[i].AccountName[1],
                                 transactions_df[i].Amount[1], "unknown",
                                 RowDescription(transactions_df[i]),
                                 StripOptional(transactions_df[i].Category), None, None,
                                 extract_institution(transactions_df[i].AccountName[1],
                                                     transactions_df[i].source_file))
                      /\ SumAmounts(entries[k].postings) = 0

\* C11 witness: the transfer "Online Banking Transfer" names no other account and has
\* been built into an entry on the own account and Expenses:Transfers.
C11_Witness ==
    /\ pc = "built"
    /\ \E i \in 1..Len(transactions_df) :
           /\ transactions_df[i].Description = Some("Online Banking Transfer")
           /\ RowKind(transactions_df[i]) = "transfer"
           /\ RowTransfer(transactions_df[i]) = <<None, None>>
    /\ \E k \in 1..Len(entries) :
           /\ entries[k].description = "Online Banking Transfer"
           /\ entries[k].postings = << <<"Assets:BankOfAmerica:Checking", -300000>>,
                                       <<"Expenses:Transfers", 300000>> >>

\* the text the builder searches for the accounts of a transfer (ledger_builder 213)
TransferText(r) == Lower(OrElse(StripOptional(r.OriginalDescription), RowDescription(r)))

\* an Income:* or Expenses:* bucket
IsBucket(account) == StartsWith(account, "Income:") \/ StartsWith(account, "Expenses:")

\* C12 (as claimed): every record classified transfer, by category hint or by transfer
\* keyword, whose original description contains "from X" or "to X" is built into an
\* entry that posts -|amount| to the resolved source and +|amount| to the resolved
\* target whatever the sign of the amount; with "from X" the target is the record's
\* own account and the source is X, with "to X" the source is the own account and the
\* target is X, and "from" decides when both occur.
C12_TransferDirection ==
    pc /= "start" =>
        \A i \in 1..Len(transactions_df) :
            (/\ Complete(transactions_df[i])
             /\ RowKind(transactions_df[i]) = "transfer"
             /\ \/ Contains(TransferText(transactions_df[i]), "from ")
                \/ Contains(TransferText(transactions_df[i]), "to "))
            => /\ EntriesOfRow(transactions_df[i]) /= {}
               /\ \A k \in EntriesOfRow(transactions_df[i]) :
                      /\ Len(entries[k].postings) = 2
                      /\ entries[k].postings[1][2] = -Abs(transactions_df[i].Amount[1])
                      /\ entries[k].postings[2][2] = Abs(transactions_df[i].Amount[1])
                      /\ ~IsBucket(entries[k].postings[1][1])
                      /\ ~IsBucket(entries[k].postings[2][1])
                      /\ IF Contains(TransferText(transactions_df[i]), "from ")
                         THEN entries[k].postings[2][1] =
                                  get_ledger_account(transactions_df[i].AccountName[1], None,
                                      extract_institution(
                                          transactions_df[i].AccountName[1],
                                          transactions_df[i].source_file))
                         ELSE entries[k].postings[1][1] =
                                  get_ledger_account(transactions_df[i].AccountName[1], None,
                                      extract_institution(
                                          transactions_df[i].AccountName[1],
                                          transactions_df[i].source_file))

\* C14: after a build, converted + failed equals the number of input rows and
\* entries holds exactly the converted rows: a row that fails to convert (a missing
\* date, amount or account name) leaves no entry, and every convertible row has its
\* entries whether or not a failing row precedes it.
C14_BatchAccounting ==
    pc = "built" =>
        /\ converted + failed = Len(transactions_df)
        /\ Len(entries) = converted
        /\ failed = Cardinality({i \in 1..Len(transactions_df) :
                                     ~Complete(transactions_df[i])})
        /\ \A k \in 1..Len(entries) :
               \E i \in 1..Len(transactions_df) :
                   Complete(transactions_df[i]) /\ k \in EntriesOfRow(transactions_df[i])
        /\ \A i \in 1..Len(transactions_df) :
               Complete(transactions_df[i]) =>
                   Cardinality(EntriesOfRow(transactions_df[i]))
                       = Cardinality({j \in 1..Len(transactions_df) :
                                          transactions_df[j] = transactions_df[i]})

\* C14 witness: a batch of three rows whose first row has no amount: one failure and
\* the two later rows converted.
C14_Witness ==
    /\ pc = "built"
    /\ Len(transactions_df) = 3
    /\ transactions_df[1].Amount = None
    /\ Complete(transactions_df[2])
    /\ Complete(transactions_df[3])
    /\ failed = 1
    /\ converted = 2
    /\ Len(entries) = 2

\* the entries of seq dated d, in the order of seq
ByDate(seq, d) == SelectSeq(seq, LAMBDA e : e.date = d)

\* the entries of the convertible rows, in row order
ConvertedInOrder == BuildLoop(transactions_df, <<<<>>, 0, 0>>)[1]

\* C15: after a build, entries is in non-decreasing date order and, for every date,
\* holds the entries converted from the rows of that date in the order of the rows
\* (a stable sort of the converted entries).
C15_StableDateOrder ==
    pc = "built" =>
        \E conv \in {ConvertedInOrder} :
            /\ \A k \in 1..(Len(entries) - 1) : entries[k].date <= entries[k + 1].date
            /\ Len(entries) = Len(conv)
            /\ \A k \in 1..Len(conv) :
                   ByDate(entries, conv[k].date) = ByDate(conv, conv[k].date)

\* C15 witness: rows dated 3, 1, 1 with different descriptions are held as the two
\* entries of day 1 in row order, followed by the entry of day 3.
C15_Witness ==
    /\ pc = "built"
    /\ Len(transactions_df) = 3
    /\ Len(entries) = 3
    /\ transactions_df[1].Date = Some(3)
    /\ transactions_df[2].Date = Some(1)
    /\ transactions_df[3].Date = Some(1)
    /\ transactions_df[2] /= transactions_df[3]
    /\ entries[1].description = RowDescription(transactions_df[2])
    /\ entries[2].description = RowDescription(transactions_df[3])
    /\ entries[3].description = RowDescription(transactions_df[1])

RECURSIVE RowsBefore(_, _)
\* the number of postings of the entries of es in front of entry k
RowsBefore(es, k) == IF k = 1 THEN 0 ELSE RowsBefore(es, k - 1) + Len(es[k - 1].postings)

\* C16: the exported ledger has exactly one row per posting of every entry, in entry
\* order and with the entry's date and description and the posting's account and
\* amount; the amounts of the rows of one (date, description) group sum to zero within
\* 0.01, also when several entries share the date and the description.
C16_ExportRoundTrip ==
    pc = "exported" =>
        /\ Len(ledger_csv) = RowsBefore(entries, Len(entries) + 1)
        /\ \A k \in 1..Len(entries) :
               \A m \in 1..Len(entries[k].postings) :
                   /\ ledger_csv[RowsBefore(entries, k) + m].date = entries[k].date
                   /\ ledger_csv[RowsBefore(entries, k) + m].description
                          = entries[k].description
                   /\ ledger_csv[RowsBefore(entries, k) + m].account
                          = entries[k].postings[m][1]
                   /\ ledger_csv[RowsBefore(entries, k) + m].amount
                          = entries[k].postings[m][2]
        /\ \A i \in 1..Len(ledger_csv) :
               Abs(SumOver(ledger_csv, EntryOf(ledger_csv, i))) <= Tolerance

\* C16 witness: two entries of the same date and description are exported as four
\* rows that form one group of sum zero.
C16_Witness ==
    /\ pc = "exported"
    /\ Len(entries) = 2
    /\ entries[1].date = entries[2].date
    /\ entries[1].description = entries[2].description
    /\ Len(ledger_csv) = 4
    /\ EntryOf(ledger_csv, 1) = 1..4
    /\ ledger_csv[1].amount /= 0
    /\ SumOver(ledger_csv, 1..4) = 0

---------------------------------------------------------------------------
(* Claims about the matcher's scoring, checked under SpecMatcher           *)

\* the pair is inside the amount and the date window
Eligible(c, k) ==
    /\ Abs(Abs(c.amount) - Abs(k.amount)) < 1000
    /\ Abs(c.date - k.date) <= max_date_diff_days

\* the weight of the card-name signal, in tenths: the name read from the checking
\* description against the name in the card account
CardWeight(name, card) ==
    IF name /= "" /\ name = card THEN 2 ELSE IF name /= "" \/ card /= "" THEN 1 ELSE 0

\* the sum of the five weights of a pair, in tenths
Weights(c, k) ==
    (IF Abs(c.amount) = Abs(k.amount) THEN 4 ELSE 2)
    + (IF c.date = k.date THEN 3 ELSE 2)
    + CardWeight(CardName(Lower(c.description)), AfterLast(k.account, CreditCardPrefix))
    + (IF Contains(Lower(GetSourceFile(c)), "bank")
          /\ Contains(Lower(GetSourceFile(k)), "bank") THEN 1 ELSE 0)
    + (IF Contains(Lower(c.description), "payment")
          /\ Contains(Lower(k.description), "payment") THEN 1 ELSE 0)

C18_ConfidenceInUnitRange ==
    \A n \in 1..Len(matches) :
        /\ FloatGE(matches[n].confidence, <<0, 0>>)
        /\ FloatGE(<<10, 0>>, matches[n].confidence)

---------------------------------------------------------------------------
(* Claims about reconciliation, checked under Spec                         *)

\* the batch is the checking record and the card record of one payment
TwoFeedsOnePayment ==
    /\ Len(transactions_df) = 2
    /\ {transactions_df[1].Description, transactions_df[2].Description}
           = {Some("AMERICAN EXPRESS ACH PMT"), Some("ONLINE PAYMENT - THANK YOU")}

\* C19 (as claimed): for the ledger built from one checking record and one card
\* record of the same payment (same date, same amount, the checking description
\* naming the card, no category hint) find_credit_card_payments yields exactly one
\* Match, of confidence at least 0.9, and the reconciled ledger consists of the
\* corrected entry (checking account, -amount), (Liabilities:CreditCards:<card>,
\* +amount) alone: no posting of the two original entries remains.
C19_TwoFeedsOnePayment ==
    (pc = "reconciled" /\ TwoFeedsOnePayment) =>
        /\ Len(matches) = 1
        /\ FloatGE(matches[1].confidence, <<9, 0>>)
        /\ Len(reconciled_df[1]) = 2
        /\ {<<reconciled_df[1][i].account, reconciled_df[1][i].amount>> :
                i \in 1..Len(reconciled_df[1])}
               = {<<"Assets:BankOfAmerica:Checking", -500000>>,
                  <<"Liabilities:CreditCards:AmericanExpress", 500000>>}
        /\ \A i \in 1..Len(reconciled_df[1]) : reconciled_df[1][i].original_entry /= ""

\* row r of the ledger belongs to one of the two original entries of some match
InMatchedEntry(r) ==
    \E n \in 1..Len(matches) :
        \/ /\ r.date = matches[n].checking_entry.date
           /\ r.description = matches[n].checking_entry.description
        \/ /\ r.date = matches[n].credit_card_entry.date
           /\ r.description = matches[n].credit_card_entry.description

\* C20 (as claimed): for each Match create_reconciled_ledger removes exactly the four
\* postings of the two matched original entries and no posting of any other entry,
\* and inserts exactly two postings, (checking account, -amount) and
\* (Liabilities:CreditCards:<correct card>, +amount); every row of the ledger that
\* belongs to neither matched entry appears unchanged in the reconciled ledger.
C20_RepairFourByTwo ==
    (pc = "reconciled" /\ matches /= <<>>) =>
        /\ SelectSeq(reconciled_df[1], LAMBDA r : r.original_entry = "")
               = SelectSeq(ledger_df[1], LAMBDA r : ~InMatchedEntry(r))
        /\ Len(SelectSeq(reconciled_df[1], LAMBDA r : r.original_entry /= ""))
               = 2 * Len(matches)
        /\ \A n \in 1..Len(matches) :
               /\ \E i \in 1..Len(reconciled_df[1]) :
                      /\ reconciled_df[1][i].original_entry = "checking_payment"
                      /\ reconciled_df[1][i].account = matches[n].checking_entry.account
                      /\ reconciled_df[1][i].amount = -matches[n].amount
               /\ \E i \in 1..Len(reconciled_df[1]) :
                      /\ reconciled_df[1][i].original_entry = "credit_card_payment"
                      /\ reconciled_df[1][i].account = matches[n].credit_card_entry.account
                      /\ reconciled_df[1][i].amount = matches[n].amount

---------------------------------------------------------------------------
(* Claims about the deduplication, checked under SpecDedup                 *)

\* how many entries of a result list carry the record t
InNew(t) == Cardinality({k \in DOMAIN new_transactions : new_transactions[k] = t})

InExact(t) == Cardinality({k \in DOMAIN exact_duplicates : exact_duplicates[k].transaction_data = t})

InFuzzy(t) == Cardinality({k \in DOMAIN fuzzy_duplicates : fuzzy_duplicates[k].transaction_data = t})

InBatch(t) == Cardinality({k \in DOMAIN transactions_data : transactions_data[k] = t})

\* the rows of the table in the amount and date window of the record t
WindowRows(t) ==
    {k \in DOMAIN store :
        /\ store[k].account_id = t.account_id
        /\ Abs(store[k].amount - t.amount) <= amount_tolerance
        /\ Abs(store[k].transaction_date - t.transaction_date) <= date_tolerance_days}

\* the rows of the table the exact query returns for the record t
ExactRows(t) ==
    {k \in DOMAIN store :
        IsExactDuplicate(store[k], t.account_id, t.transaction_date, t.amount, t.description)}

\* C21: when deduplicate_transactions returns, every incoming record is in exactly
\* one of new_transactions, exact_duplicates and fuzzy_duplicates, the three counts of
\* the report add up to total_processed, a record is new exactly when the table holds
\* no exact match and no row in its window, and a record with an exact match is
\* reported as exact only
C21_Partition ==
    dedup_pc[2] = "returned" =>
        /\ deduplication_report[1].total_processed = Len(transactions_data)
        /\ deduplication_report[1].new_count = Len(new_transactions)
        /\ deduplication_report[1].exact_duplicate_count = Len(exact_duplicates)
        /\ deduplication_report[1].fuzzy_duplicate_count = Len(fuzzy_duplicates)
        /\ deduplication_report[1].new_count + deduplication_report[1].exact_duplicate_count
             + deduplication_report[1].fuzzy_duplicate_count
           = deduplication_report[1].total_processed
        /\ \A k \in DOMAIN transactions_data :
           \E t \in {transactions_data[k]} :
                /\ InNew(t) + InExact(t) + InFuzzy(t) = InBatch(t)
                /\ Cardinality({n \in {InNew(t), InExact(t), InFuzzy(t)} : n > 0}) = 1
                /\ \/ InNew(t) = InBatch(t)
                   \/ InExact(t) = InBatch(t)
                   \/ InFuzzy(t) = InBatch(t)
                /\ InNew(t) > 0 <=> (ExactRows(t) = {} /\ WindowRows(t) = {})
                /\ ExactRows(t) /= {} => (WindowRows(t) /= {} /\ InExact(t) = InBatch(t))

\* a batch of three records returns with one record in each of the three lists
C21_Witness ==
    /\ dedup_pc[2] = "returned"
    /\ Len(new_transactions) = 1
    /\ Len(exact_duplicates) = 1
    /\ Len(fuzzy_duplicates) = 1

\* the rows of the table with the account, date and amount of the record t and a
\* description equal to its description once both are normalized
SameAfterNormalization(t) ==
    {k \in DOMAIN store :
        /\ store[k].account_id = t.account_id
        /\ store[k].transaction_date = t.transaction_date
        /\ store[k].amount = t.amount
        /\ NormalizedDescription(store[k].description) = NormalizedDescription(t.description)}

\* C22: when deduplicate_transactions returns, a record is among exact_duplicates
\* if and only if the table holds a row with the same account, date and amount whose
\* description equals the record's after both descriptions are normalized
C22_ExactIffNormalizedEqual ==
    dedup_pc[2] = "returned" =>
        \A k \in DOMAIN transactions_data :
            InExact(transactions_data[k]) > 0 <=> SameAfterNormalization(transactions_data[k]) /= {}

\* the score of a row of the window for the record t, in tenths: 9 when the
\* descriptions are equal after normalization, 7 when one holds the other
\* (letter case ignored), 5 otherwise
LevelOf(t, row) ==
    IF NormalizedDescription(row.description) = NormalizedDescription(t.description) THEN 9
    ELSE IF Contains(Lower(row.description), Lower(t.description)) THEN 7
    ELSE IF Contains(Lower(t.description), Lower(row.description)) THEN 7
    ELSE 5

\* the entries of fuzzy_duplicates that carry the record t
FuzzyEntries(t) == {fuzzy_duplicates[k] : k \in {j \in DOMAIN fuzzy_duplicates : fuzzy_duplicates[j].transaction_data = t}}

\* the ids of a set of rows of the table
IdsOf(ks) == {store[k].id : k \in ks}

\* the ids an entry lists
Listed(e) == {e.existing_transaction_ids[k] : k \in DOMAIN e.existing_transaction_ids}

\* C23: when deduplicate_transactions returns, a record without an exact match and
\* with at least one row in its window (same account, amount within 0.50, date within
\* 3 days, the ends included) is never in new_transactions; it is recorded as
\* fuzzy_high_confidence with confidence 0.9 and the rows scoring at least 0.8 when
\* some row of the window scores at least 0.8, and otherwise as fuzzy_low_confidence
\* with the highest score (0.7 or 0.5) and all rows of the window
C23_FuzzyLevels ==
    dedup_pc[2] = "returned" =>
        \A k \in DOMAIN transactions_data :
        \E t \in {transactions_data[k]} :
            (ExactRows(t) = {} /\ WindowRows(t) /= {}) =>
                /\ InNew(t) = 0
                /\ InFuzzy(t) = InBatch(t)
                /\ \A e \in FuzzyEntries(t) :
                      IF \E w \in WindowRows(t) : LevelOf(t, store[w]) >= 8
                      THEN /\ e.match_type = "fuzzy_high_confidence"
                           /\ e.confidence = 9
                           /\ Listed(e) = IdsOf({w \in WindowRows(t) : LevelOf(t, store[w]) >= 8})
                      ELSE /\ e.match_type = "fuzzy_low_confidence"
                           /\ e.confidence \in {5, 7}
                           /\ \A w \in WindowRows(t) : LevelOf(t, store[w]) <= e.confidence
                           /\ \E w \in WindowRows(t) : LevelOf(t, store[w]) = e.confidence
                           /\ Listed(e) = IdsOf(WindowRows(t))

\* one batch returns with a record skipped at 0.9 and a record flagged at 0.7, whose
\* entry lists the row t4 on the upper ends of the window
C23_Witness ==
    /\ dedup_pc[2] = "returned"
    /\ \E e \in {fuzzy_duplicates[k] : k \in DOMAIN fuzzy_duplicates} :
            e.match_type = "fuzzy_high_confidence" /\ e.confidence = 9
    /\ \E e \in {fuzzy_duplicates[k] : k \in DOMAIN fuzzy_duplicates} :
            /\ e.match_type = "fuzzy_low_confidence"
            /\ e.confidence = 7
            /\ "t4" \in Listed(e)

---------------------------------------------------------------------------
(* Claims about the block, checked under SpecBlock                         *)

\* C24: a new Block is open; a close() that succeeds leaves the block closed, no
\* call opens a closed block again, and every post on a closed block raises
\* ValueError and leaves the journal and the count of postings as they were
C24_ClosedForEver ==
    /\ ~is_closed(closed)
    /\ [][/\ is_closed(closed) => is_closed(closed')
          /\ (last_call'.op = "close" /\ last_call'.raised = "") => is_closed(closed')
          /\ (is_closed(closed) /\ last_call'.op = "post") =>
                /\ last_call'.raised = "ValueError"
                /\ journal' = journal
                /\ Len(journal') = Len(journal)]_vars

\* a block closed with two postings on which a later post raised ValueError
C24_Witness ==
    /\ is_closed(closed)
    /\ Len(journal) >= 2
    /\ last_call.op = "post"
    /\ last_call.raised = "ValueError"

\* C28: close() on a block with exactly one posting raises ValueError and leaves the
\* block open and the journal unchanged; every other close() succeeds, leaves the
\* block closed with balance() zero, and has added exactly one overdraft posting when
\* the balance was not zero and none when it was
C28_CloseBalances ==
    [][last_call'.op = "close" =>
            IF Len(journal) = 1
            THEN /\ last_call'.raised = "ValueError"
                 /\ ~is_closed(closed')
                 /\ journal' = journal
            ELSE /\ last_call'.raised = ""
                 /\ is_closed(closed')
                 /\ balance(journal') = 0
                 /\ SubSeq(journal', 1, Len(journal)) = journal
                 /\ Len(journal') = Len(journal) + (IF balance(journal) = 0 THEN 0 ELSE 1)]_vars

---------------------------------------------------------------------------
(* Claims about the deduplication beside a writer, checked under           *)
(* SpecDedupWriter                                                         *)

\* C27: when deduplicate_transactions returns, two identical records of the batch
\* have received the same classification, also when another session inserted rows
\* while the batch was processed: the entries of one record are all in one list and,
\* among the fuzzy duplicates, of one match type
C27_SameClassification ==
    dedup_pc[2] = "returned" =>
        \A k \in DOMAIN transactions_data :
        \E t \in {transactions_data[k]} :
            /\ Cardinality({n \in {InNew(t), InExact(t), InFuzzy(t)} : n > 0}) = 1
            /\ \A e1, e2 \in FuzzyEntries(t) : e1.match_type = e2.match_type

---------------------------------------------------------------------------
(* Claims about the matcher's pairing, checked under SpecMatcher           *)

\* the card row j of the loaded ledger reaches the threshold with the checking row i
Reaches(i, j) ==
    /\ IsCreditCardPayment(ledger_df[1][j])
    /\ Eligible(ledger_df[1][i], ledger_df[1][j])
    /\ Weights(ledger_df[1][i], ledger_df[1][j]) >= 6

\* the checking candidates, by row index, that some card candidate reaches
Matchable ==
    {i \in 1..Len(ledger_df[1]) :
        IsCheckingPayment(ledger_df[1][i]) /\ \E j \in 1..Len(ledger_df[1]) : Reaches(i, j)}

\* the first card row, in row order, that reaches the threshold with the checking row i
FirstReaching(i) ==
    CHOOSE j \in 1..Len(ledger_df[1]) : Reaches(i, j) /\ \A k \in 1..(j - 1) : ~Reaches(i, k)

\* the n-th smallest index of a set of row indexes
Nth(S, n) == CHOOSE i \in S : Cardinality({k \in S : k < i}) = n - 1

\* C25: find_credit_card_payments yields one Match for every checking candidate that
\* some card candidate reaches and none for any other, in row order, so a checking
\* candidate is in at most one Match; its partner is the first card candidate in row
\* order with confidence at least 0.6, also when a later one scores higher
C25_FirstAcceptedWins ==
    pc \in {"matched", "reconciled"} =>
        /\ Len(matches) = Cardinality(Matchable)
        /\ \A n \in 1..Len(matches) :
           \E i \in {Nth(Matchable, n)} :
                /\ matches[n].checking_entry = ledger_df[1][i]
                /\ matches[n].credit_card_entry = ledger_df[1][FirstReaching(i)]
                /\ matches[n].confidence[1]
                       = Weights(ledger_df[1][i], ledger_df[1][FirstReaching(i)])

\* a checking payment is matched at 0.8 with the first card row that reaches the
\* threshold although a later card row scores 1.1 with it
C25_Witness ==
    /\ pc = "matched"
    /\ \E i \in Matchable :
       \E j \in 1..Len(ledger_df[1]) :
            /\ j > FirstReaching(i)
            /\ Reaches(i, j)
            /\ Weights(ledger_df[1][i], ledger_df[1][FirstReaching(i)]) = 8
            /\ Weights(ledger_df[1][i], ledger_df[1][j]) = 11

\* the orders in which n matches can be processed
Orders(n) == {p \in [1..n -> 1..n] : \A a, b \in 1..n : a /= b => p[a] /= p[b]}

\* the matches taken in the order p
InOrder(ms, p) == [k \in 1..Len(ms) |-> ms[p[k]]]

\* two frames hold the same rows, each as often in the one as in the other
SameRows(a, b) ==
    /\ Len(a) = Len(b)
    /\ \A k \in DOMAIN a :
           Cardinality({i \in DOMAIN a : a[i] = a[k]}) = Cardinality({i \in DOMAIN b : b[i] = a[k]})

\* the rows of the loaded ledger that the matches, taken in the order p, remove
RemovedInOrder(p) ==
    UNION {IndicesToRemove(ledger_df[1], InOrder(matches, p)[k]) : k \in 1..Len(matches)}

\* C26: find_credit_card_payments and create_reconciled_ledger leave the loaded ledger
\* as it was read from the file, and the reconciled ledger holds the same rows, and
\* the same rows of the loaded ledger are removed, in whichever order the matches are
\* processed
C26_FrozenSnapshot ==
    /\ pc \in {"matched", "reconciled"} => ledger_df = Some(ledger_csv)
    /\ pc = "reconciled" =>
        \A p \in Orders(Len(matches)) :
            /\ SameRows(create_reconciled_ledger(ledger_df[1], InOrder(matches, p)), reconciled_df[1])
            /\ RemovedInOrder(p) = RemovedInOrder([k \in 1..Len(matches) |-> k])
            /\ SameRows(Drop(ledger_df[1], RemovedInOrder(p), 1),
                        SelectSeq(reconciled_df[1], LAMBDA r : r.original_entry = ""))

\* the reconciled ledger of two different matches that share the card row, each of
\* which removes rows of the loaded ledger
C26_Witness ==
    /\ pc = "reconciled"
    /\ Len(matches) = 2
    /\ matches[1] /= matches[2]
    /\ matches[1].credit_card_entry = matches[2].credit_card_entry
    /\ IndicesToRemove(ledger_df[1], matches[1]) /= {}
    /\ IndicesToRemove(ledger_df[1], matches[2]) /= {}
    /\ IndicesToRemove(ledger_df[1], matches[1]) /= IndicesToRemove(ledger_df[1], matches[2])

\* C29: in the match list of find_credit_card_payments no credit-card row is paired
\* with two checking rows: the matches use as many different card rows as there are
\* matches, and no two corrected card postings stem from one card row
C29_NoDoubleUse ==
    pc \in {"matched", "reconciled"} =>
        /\ Cardinality({FirstReaching(i) : i \in Matchable}) = Len(matches)
        /\ \A n, m \in 1..Len(matches) :
               (n /= m /\ matches[n].checking_entry /= matches[m].checking_entry)
                   => matches[n].credit_card_entry /= matches[m].credit_card_entry


---------------------------------------------------------------------------
(* Claims about the account kinds, checked under SpecPostings              *)

\* the files a record of the call's account may have been read from
SourceFiles == {CheckingFile, CardFile, BankCardFile, ""}

\* the posting on the record's own account: the first of an expense and of an unknown
\* record with a negative amount, the second of an income and of any other unknown one
OwnAccount ==
    IF syn.transaction_type = "expense"
       \/ (syn.transaction_type = "unknown" /\ syn.amount < 0)
    THEN syn.ret[1][1] ELSE syn.ret[2][1]

\* C30: for the kinds expense, income and unknown, an account the builder infers as
\* credit_card has its own posting under Liabilities:CreditCards:, and an account it
\* infers as checking or savings has it under Assets:
C30_KindsAgree ==
    (syn.called /\ syn.transaction_type \in {"expense", "income", "unknown"}) =>
        \A source_file \in SourceFiles :
            /\ infer_account_type(syn.account_name, source_file) = "credit_card"
                   => StartsWith(OwnAccount, "Liabilities:CreditCards:")
            /\ infer_account_type(syn.account_name, source_file) \in {"checking", "savings"}
                   => StartsWith(OwnAccount, "Assets:")

===========================================================================
